---- MODULE Spec2Model ----
(***************************************************************************)
(* Transcript retrieval and normalization shim of YT-Researcher            *)
(* (src/transcript_helper.py): get_video_transcript with its four          *)
(* retrieval strategies, normalize_transcript, and the failure classifier; *)
(* and of src/app.py and src/seo_analyzer.py: get_api_key,                 *)
(* save_api_key_to_storage, clear_api_key_from_storage, save_config,       *)
(* resolve_channel_id and analyze_title.                                   *)
(*                                                                         *)
(* Python values are modelled as tagged records.  Strings are TLA+ strings *)
(* (Len, \o and SubSeq work on them), so substring tests, lower-casing,    *)
(* slicing and joining are computed character by character as Python does. *)
(* The warning sign and the space that open three of the messages of       *)
(* get_video_transcript are not ASCII and are written "(!) " here.         *)
(***************************************************************************)
EXTENDS Integers, Sequences, FiniteSets, TLC

VARIABLES
    has_get_transcript,    \* hasattr(YouTubeTranscriptApi, 'get_transcript')
    has_list_transcripts,  \* hasattr(YouTubeTranscriptApi, 'list_transcripts')
    has_list,              \* the client instance has a 'list' method
    pc,                    \* position inside get_video_transcript
    errors,                \* the local list `errors`
    raw_data,              \* the local `raw_data`
    transcript_list,       \* the local `transcript_list` of the strategy in progress
    tracks_seen,           \* tracks its any-track loop has been handed so far
    result,                \* what get_video_transcript returned
    attempted,             \* strategies entered during this call, in order
    calls,                 \* invocations of the client by the strategy in progress,
                           \* or by the strategy that ended the call
    yielded,               \* per finished strategy, the true payload it handed
                           \* back, or None
    fresh,                 \* errors and result of the same call, fed the same
                           \* client responses, as the first call of a new process
    earlier_notes,         \* an earlier call of this process recorded a note
    raised_in,             \* strategies of this call in which the client raised
    data,                  \* argument of a direct normalize_transcript call
    data_after,            \* that argument object as the call left it
    snippets,              \* what that normalize_transcript call returned
    npc,                   \* position of the direct normalize_transcript call
    session_state,         \* st.session_state of app.py: key -> value
    local_storage,         \* outcome of local_storage.getItem("youtube_api_key")
    api_key_file,          \* outcome of reading the file .api_key
    secrets,               \* outcome of looking up YOUTUBE_API_KEY in st.secrets
    environ,               \* os.environ.get('YOUTUBE_API_KEY')
    api_key,               \* what get_api_key returned
    asked_with,            \* session_state when that get_api_key call began
    kpc,                   \* position of the get_api_key call
    key_arg,               \* argument of the save_api_key_to_storage call
    clear_ret,             \* what clear_api_key_from_storage returned
    spc,                   \* position in the sequence save, clear, get
    config_file,           \* dashboard_config.json on disk
    cpc,                   \* position of the save_config call
    query,                 \* argument of the resolve_channel_id call
    handle_resp,           \* what channels().list(...).execute() did in that call
    search_resp,           \* what search().list(...).execute() did in that call
    channel_id,            \* what resolve_channel_id returned
    channel_cache,         \* st.cache_data of resolve_channel_id: query -> result
    rpc,                   \* position of the resolve_channel_id call
    title,                 \* first argument of the analyze_title call
    target_keyword,        \* its second argument
    title_analysis,        \* what analyze_title returned
    tpc                    \* position of the analyze_title call

vars == <<has_get_transcript, has_list_transcripts, has_list, pc, errors, raw_data,
          transcript_list, tracks_seen, result, attempted, calls, yielded, fresh,
          earlier_notes, raised_in, data, data_after, snippets, npc, session_state,
          local_storage, api_key_file, secrets, environ, api_key, asked_with, kpc,
          key_arg, clear_ret, spc, config_file, cpc,
          query, handle_resp, search_resp, channel_id, channel_cache, rpc,
          title, target_keyword, title_analysis, tpc>>

fetch_vars == <<has_get_transcript, has_list_transcripts, has_list, pc, errors,
                raw_data, transcript_list, tracks_seen, result, attempted, calls,
                yielded, fresh, earlier_notes, raised_in>>

norm_vars == <<data, data_after, snippets, npc>>

key_vars == <<local_storage, api_key_file, secrets, environ, api_key, asked_with, kpc>>

store_vars == <<key_arg, clear_ret, spc>>

config_vars == <<config_file, cpc>>

channel_vars == <<query, handle_resp, search_resp, channel_id, channel_cache, rpc>>

title_vars == <<title, target_keyword, title_analysis, tpc>>

app_vars == <<session_state, key_vars, store_vars, config_vars, channel_vars, title_vars>>

----------------------------------------------------------------------------
(* Bounds of the model *)

\* tracks a track listing hands to the any-track loop
MaxTracks == 2
\* entries in a payload given directly to normalize_transcript
MaxLen == 2

----------------------------------------------------------------------------
(* Python strings *)

Min(a, b) == IF a < b THEN a ELSE b

UpperToLower ==
    "A" :> "a" @@ "B" :> "b" @@ "C" :> "c" @@ "D" :> "d" @@ "E" :> "e" @@ "F" :> "f" @@
    "G" :> "g" @@ "H" :> "h" @@ "I" :> "i" @@ "J" :> "j" @@ "K" :> "k" @@ "L" :> "l" @@
    "M" :> "m" @@ "N" :> "n" @@ "O" :> "o" @@ "P" :> "p" @@ "Q" :> "q" @@ "R" :> "r" @@
    "S" :> "s" @@ "T" :> "t" @@ "U" :> "u" @@ "V" :> "v" @@ "W" :> "w" @@ "X" :> "x" @@
    "Y" :> "y" @@ "Z" :> "z"

LowerChar(c) == IF c \in DOMAIN UpperToLower THEN UpperToLower[c] ELSE c

RECURSIVE Lower(_)
\* s.lower()
Lower(s) ==
    IF Len(s) = 0 THEN ""
    ELSE IF Len(s) = 1 THEN LowerChar(s)
    ELSE Lower(SubSeq(s, 1, Len(s) \div 2)) \o Lower(SubSeq(s, (Len(s) \div 2) + 1, Len(s)))

\* sub in s
Contains(sub, s) ==
    \E i \in 1..(Len(s) - Len(sub) + 1) : SubSeq(s, i, i + Len(sub) - 1) = sub

\* s[:n]
Slice(s, n) == SubSeq(s, 1, Min(n, Len(s)))

RECURSIVE Join(_, _)
\* sep.join(parts)
Join(sep, parts) ==
    IF Len(parts) = 0 THEN ""
    ELSE IF Len(parts) = 1 THEN parts[1]
    ELSE parts[1] \o sep \o Join(sep, Tail(parts))

----------------------------------------------------------------------------
(* Python values held by the fields of a transcript entry.                 *)
(* t is the Python type, s the string content, n the numeric content.      *)
(* A float is modelled by its (integral) value n.  "bigint" is the int     *)
(* 2^53 + n and "bigfloat" the float 2^53 + n, where a double has no odd   *)
(* values; "hugeint" is an int that is larger than the largest double.     *)

Absent       == [t |-> "absent",   s |-> "", n |-> 0]   \* no such key / attribute
PyNone       == [t |-> "NoneType", s |-> "", n |-> 0]
PyStr(x)     == [t |-> "str",      s |-> x,  n |-> 0]
PyInt(k)     == [t |-> "int",      s |-> "", n |-> k]
PyFloat(k)   == [t |-> "float",    s |-> "", n |-> k]
PyBigInt(k)  == [t |-> "bigint",   s |-> "", n |-> k]
PyBigFloat(k) == [t |-> "bigfloat", s |-> "", n |-> k]
PyHugeInt    == [t |-> "hugeint",  s |-> "", n |-> 0]
PyEmptyDict  == [t |-> "dict",     s |-> "", n |-> 0]   \* {}
PyTextDict(x) == [t |-> "dict",    s |-> x,  n |-> 1]   \* {'text': x}
PyOtherDict(x) == [t |-> "dict",   s |-> x,  n |-> 2]   \* {'lang': x}
PyNoneTextDict == [t |-> "dict",   s |-> "", n |-> 3]   \* {'text': None}

Digit == <<"0", "1", "2", "3", "4", "5", "6", "7", "8", "9">>

RECURSIVE NatStr(_)
NatStr(k) == IF k < 10 THEN Digit[k + 1] ELSE NatStr(k \div 10) \o Digit[(k % 10) + 1]

IntStr(k) == IF k < 0 THEN "-" \o NatStr(0 - k) ELSE NatStr(k)

RECURSIVE Zeros(_)
Zeros(k) ==
    IF k = 0 THEN "" ELSE IF k = 1 THEN "0" ELSE Zeros(k \div 2) \o Zeros(k - (k \div 2))

\* decimal strings that float() parses, with their values
NumStr == "0" :> 0 @@ "1" :> 1 @@ "2" :> 2 @@ "1.0" :> 1 @@ "2.0" :> 2

\* round-half-to-even of 2^53 + k to a double, as an offset from 2^53
RoundEven(k) == IF k % 2 = 0 THEN k ELSE IF k % 4 = 1 THEN k - 1 ELSE k + 1

Raised == [ok |-> FALSE, val |-> Absent]
Returned(v) == [ok |-> TRUE, val |-> v]

\* float() forgotten for an int
PyFloatOfKeepsInt(v) ==
    CASE v.t \in {"float", "bigfloat", "int", "bigint"} -> Returned(v)
      [] v.t = "str" /\ v.s \in DOMAIN NumStr -> Returned(PyFloat(NumStr[v.s]))
      [] OTHER -> Raised

\* float(v): the value, or the exception float() raises
PyFloatOf(v) ==
    CASE v.t = "float"    -> Returned(v)
      [] v.t = "bigfloat" -> Returned(v)
      [] v.t = "int"      -> Returned(PyFloat(v.n))
      [] v.t = "bigint"   -> Returned(PyBigFloat(RoundEven(v.n)))
      [] v.t = "hugeint"  -> Raised                      \* OverflowError
      [] v.t = "str"      -> IF v.s \in DOMAIN NumStr
                             THEN Returned(PyFloat(NumStr[v.s]))
                             ELSE Raised                 \* ValueError
      [] OTHER            -> Raised                      \* TypeError

\* str(v)
PyStrOf(v) ==
    CASE v.t = "str"      -> v.s
      [] v.t = "int"      -> IntStr(v.n)
      [] v.t = "float"    -> IntStr(v.n) \o ".0"
      [] v.t = "bigint"   -> "900719925474099" \o Digit[v.n + 3]
      [] v.t = "bigfloat" -> "900719925474099" \o Digit[v.n + 3] \o ".0"
      [] v.t = "hugeint"  -> "1" \o Zeros(400)
      [] v.t = "NoneType" -> "None"
      [] v.t = "date"     -> v.s
      [] v.t = "dict"     -> CASE v.n = 1 -> "{'text': '" \o v.s \o "'}"
                               [] v.n = 2 -> "{'lang': '" \o v.s \o "'}"
                               [] v.n = 3 -> "{'text': None}"
                               [] OTHER   -> "{}"
      [] OTHER            -> ""

\* d.get(key, default) / getattr(o, name, default)
GetOr(v, default) == IF v.t = "absent" THEN default ELSE v

----------------------------------------------------------------------------
(* Transcript entries and payloads *)

\* a mapping entry; extra: it holds keys other than text, start, duration
DictEntry(tx, st, du, extra) ==
    [kind |-> "dict", text |-> tx, start |-> st, duration |-> du,
     extra |-> extra, repr |-> "", strOk |-> TRUE]

\* a non-mapping entry with attributes; repr is str(entry), strOk: str() returns
ObjEntry(tx, st, du, repr, strOk) ==
    [kind |-> "obj", text |-> tx, start |-> st, duration |-> du,
     extra |-> FALSE, repr |-> repr, strOk |-> strOk]

\* a canonical record {'text': ..., 'start': ..., 'duration': ...}
Record(tx, st, du) == [text |-> tx, start |-> st, duration |-> du]

(* A payload: cls its type name; seq says whether it is a list ("list"),   *)
(* another iterable ("iter") or not iterable ("no"); attr says the same of *)
(* its snippets attribute, or "absent"; items are the entries of the       *)
(* payload, or of its snippets attribute when it has one; truth is the     *)
(* outcome of bool(payload).                                               *)
Payload(cls, seq, attr, items, truth) ==
    [cls |-> cls, seq |-> seq, attr |-> attr, items |-> items, truth |-> truth]

PyNonePayload == Payload("NoneType", "no", "absent", <<>>, "no")
PyList(items) ==
    Payload("list", "list", "absent", items, IF Len(items) = 0 THEN "no" ELSE "yes")
PyTuple(items) ==
    Payload("tuple", "iter", "absent", items, IF Len(items) = 0 THEN "no" ELSE "yes")
\* the client's FetchedTranscript: snippets is a list, bool() is len() > 0
FetchedTranscript(items) ==
    Payload("FetchedTranscript", "iter", "list", items,
            IF Len(items) = 0 THEN "no" ELSE "yes")
\* a plain object with a snippets list and no __len__: always true
TranscriptObj(items) == Payload("TranscriptObj", "no", "list", items, "yes")
\* an object whose snippets attribute is None
BrokenTranscriptObj == Payload("TranscriptObj", "no", "no", <<>>, "yes")
\* a non-zero int: true, and list() of it raises TypeError
PyIntPayload == Payload("int", "no", "absent", <<>>, "yes")
\* an object whose __bool__ raises
BadBool == Payload("BadBool", "no", "absent", <<>>, "raises")
\* a generator over items: it can be iterated once
PyGenerator(items) == Payload("generator", "once", "absent", items, "yes")
\* a generator that raises while list() consumes it
RaisingGenerator == Payload("generator", "no", "absent", <<>>, "yes")

----------------------------------------------------------------------------
(* normalize_transcript *)

FailedItem == [ok |-> FALSE, rec |-> Record("", PyFloat(0), PyFloat(0))]

\* start and duration mixed up
BuildRecordSwapped(tx, st, du) ==
    LET s == PyFloatOf(GetOr(st, PyFloat(0)))
        d == PyFloatOf(GetOr(du, PyFloat(0)))
    IN  IF s.ok /\ d.ok THEN [ok |-> TRUE, rec |-> Record(tx, d.val, s.val)]
        ELSE [ok |-> FALSE, rec |-> Record("", PyFloat(0), PyFloat(0))]

\* a record emitted without the field whose conversion raised
BuildRecordPartial(tx, st, du) ==
    LET s == PyFloatOf(GetOr(st, PyFloat(0)))
        d == PyFloatOf(GetOr(du, PyFloat(0)))
    IN  IF s.ok /\ d.ok THEN [ok |-> TRUE, rec |-> Record(tx, s.val, d.val)]
        ELSE IF s.ok THEN [ok |-> TRUE, rec |-> [text |-> tx, start |-> s.val]]
        ELSE [ok |-> TRUE, rec |-> [text |-> tx]]

\* the record built from text tx and the raw start and duration, or the
\* exception float() raises
BuildRecord(tx, st, du) ==
    LET s == PyFloatOf(GetOr(st, PyFloat(0)))
        d == PyFloatOf(GetOr(du, PyFloat(0)))
    IN  IF s.ok /\ d.ok THEN [ok |-> TRUE, rec |-> Record(tx, s.val, d.val)]
        ELSE FailedItem

\* text_val.get('text', default) of a mapping text_val
InnerText(text_val, default) ==
    CASE text_val.n = 1 -> PyStr(text_val.s)
      [] text_val.n = 3 -> PyNone
      [] OTHER          -> default

\* the inner text of a mapping never looked at: lines 65-66 left out
NestedTextWhole(text_val) == PyStrOf(text_val)

\* lines 64-68: the text of CASE D, a mapping's inner text when it is a mapping
NestedText(text_val) ==
    IF text_val.t = "dict"
    THEN PyStrOf(InnerText(text_val, PyStr(PyStrOf(text_val))))
    ELSE PyStrOf(text_val)

\* the body of the loop of normalize_transcript for one item
NormalizeItem(item) ==
    IF item.kind = "dict"
    THEN BuildRecord(PyStrOf(GetOr(item.text, PyStr(""))), item.start, item.duration)
    ELSE IF item.text.t = "str"
    THEN BuildRecord(item.text.s, item.start, item.duration)
    ELSE IF item.text.t # "absent"
    THEN BuildRecord(NestedText(item.text), item.start, item.duration)
    ELSE IF item.strOk
    THEN [ok |-> TRUE, rec |-> Record(item.repr, PyFloat(0), PyFloat(0))]
    ELSE FailedItem

RECURSIVE NormalizeItemsStopAtFailure(_)
\* the loop left at the first entry that raises
NormalizeItemsStopAtFailure(items) ==
    IF Len(items) = 0 THEN <<>>
    ELSE LET r == NormalizeItem(Head(items))
         IN  IF r.ok THEN <<r.rec>> \o NormalizeItemsStopAtFailure(Tail(items)) ELSE <<>>

RECURSIVE NormalizeItems(_)
NormalizeItems(items) ==
    IF Len(items) = 0 THEN <<>>
    ELSE LET r == NormalizeItem(Head(items))
         IN  (IF r.ok THEN <<r.rec>> ELSE <<>>) \o NormalizeItems(Tail(items))

\* the snippets attribute never looked at: lines 34-35 left out
NormalizeWithoutSnippets(d) ==
    IF d.seq = "no" THEN <<>> ELSE NormalizeItems(d.items)

normalize_transcript(d) ==
    LET shape == IF d.attr # "absent" THEN d.attr ELSE d.seq
    IN  IF shape = "no" THEN <<>> ELSE NormalizeItems(d.items)

----------------------------------------------------------------------------
(* The external client: exceptions, outcomes of a call, track listings *)

Exc(cls, msg) == [cls |-> cls, msg |-> msg]

NoExc == Exc("", "")

\* the classes named by the except clauses of lines 93, 139 and 159
CaughtKinds == {"TranscriptsDisabled", "NoTranscriptFound", "NoTranscriptAvailable"}

\* what the client may raise
Excs ==
    { Exc("TranscriptsDisabled", "Subtitles are disabled for this video"),
      Exc("NoTranscriptFound", "No transcripts were found for the requested languages"),
      Exc("NoTranscriptAvailable", "No transcripts are available for this video"),
      Exc("CouldNotRetrieveTranscript",
          "Could not retrieve a transcript! Subtitles are disabled for this video"),
      Exc("Exception", "No transcript found for this video"),
      Exc("VideoUnavailable",
          "The video is no longer available. If you are sure that the described cause is not responsible for this error, create an issue") }

\* raised by api.list when the instance has no such method
NoListMethod ==
    Exc("AttributeError", "'YouTubeTranscriptApi' object has no attribute 'list'")

\* raised by bool() of a BadBool payload
BadBoolExc == Exc("ValueError", "The truth value of the payload is ambiguous")

Hello == DictEntry(PyStr("Hello"), PyInt(0), PyInt(1), FALSE)

\* what a fetch of the client may hand back
Payloads ==
    { PyNonePayload,
      PyList(<<>>),
      PyList(<<Hello>>),
      FetchedTranscript(<<ObjEntry(PyStr("Hello"), PyInt(0), PyInt(1), "Snippet", TRUE),
                          ObjEntry(PyStr("World"), PyFloat(1), PyFloat(2), "Snippet", TRUE)>>),
      PyList(<<DictEntry(PyStr("Hi"), PyNone, PyInt(1), FALSE)>>),
      PyIntPayload,
      BadBool }

Ret(p) == [k |-> "ret", p |-> p, e |-> NoExc]
Raise(e) == [k |-> "raise", p |-> PyNonePayload, e |-> e]

\* outcomes of a call that hands back a payload
FetchOutcomes == {Ret(p) : p \in Payloads} \cup {Raise(e) : e \in Excs}

\* a track listing: its truth value and the lookups it offers
Listing(truth, find, generated) ==
    [truth |-> truth, has_find_transcript |-> find,
     has_find_generated_transcript |-> generated]

NoListing == Listing("no", FALSE, FALSE)

Listings == {Listing("yes", TRUE, TRUE), Listing("yes", FALSE, TRUE),
             Listing("yes", TRUE, FALSE), Listing("no", TRUE, TRUE)}

\* outcomes of a call that hands back a track listing out of `listings`
ListOutcomes(listings) ==
    {[k |-> "ret", l |-> l, e |-> NoExc] : l \in listings}
    \cup {[k |-> "raise", l |-> NoListing, e |-> e] : e \in Excs}

\* outcomes of a call that hands back a track or the client instance
TrackOutcomes == {[k |-> "ret", e |-> NoExc]} \cup {[k |-> "raise", e |-> e] : e \in Excs}

\* outcomes of a lookup in a track listing: one of its tracks, numbered in the
\* order its iteration hands them out, or an exception
FindOutcomes ==
    {[k |-> "ret", e |-> NoExc, t |-> t] : t \in 1..MaxTracks}
    \cup {[k |-> "raise", e |-> e, t |-> 0] : e \in Excs}

\* outcomes of advancing the iterator of a track listing
NextOutcomes == TrackOutcomes \cup {[k |-> "stop", e |-> NoExc]}

LANGUAGES_TO_TRY ==
    <<"en", "en-US", "en-GB", "en-AU", "en-CA", "en-IN", "hi", "hi-IN", "es", "fr",
      "de", "pt", "it", "ru", "ja", "ko", "zh-Hans", "zh-Hant">>

\* an invocation of the client by strategy s: the method op, its languages
\* argument, how it ended (r), and the track t it handed out (a lookup, a step
\* of the iteration) or was made on (a fetch), 0 when no track is involved
CallOn(s, op, languages, r, t) ==
    [s |-> s, op |-> op, languages |-> languages, r |-> r, t |-> t]

Call(s, op, languages, r) == CallOn(s, op, languages, r, 0)

\* how a fetch ended: it raised, returned a true payload, or another one
FetchKind(o) ==
    IF o.k = "raise" THEN "raise" ELSE IF o.p.truth = "yes" THEN "content" ELSE "ret"

\* the strategies whose invocations in log raised
RaisedIn(log) == {log[i].s : i \in {j \in 1..Len(log) : log[j].r = "raise"}}

----------------------------------------------------------------------------
(* Results of get_video_transcript *)

NoResult == [kind |-> "none", items |-> <<>>, s |-> ""]
ListResult(items) == [kind |-> "list", items |-> items, s |-> ""]
StrResult(s) == [kind |-> "str", items |-> <<>>, s |-> s]

CaptionsDisabledMsg ==
    "(!) Subtitles/Captions are disabled for this video. The video owner has not enabled captions."
TranscriptsDisabledMsg == "(!) Transcripts are disabled for this video by the uploader."
NoTranscriptMsg == "(!) No transcript available for this video in any supported language."

\* the emptiness test of line 242 left out
ValidateRecUnchecked(p) == ListResult(normalize_transcript(p))

\* lines 239-245
ValidateRec(p) ==
    LET normalized == normalize_transcript(p)
    IN  IF Len(normalized) > 0 THEN ListResult(normalized)
        ELSE StrResult("Transcript found but normalization failed. Raw type: <class '"
                       \o p.cls \o "'>")

\* any("disabled" in e.lower() for e in errors)
MentionsDisabled(errs) == \E i \in 1..Len(errs) : Contains("disabled", Lower(errs[i]))
\* any("TranscriptsDisabled" in e for e in errors)
NamesTranscriptsDisabled(errs) == \E i \in 1..Len(errs) : Contains("TranscriptsDisabled", errs[i])
\* any("NoTranscript" in e for e in errors)
NamesNoTranscript(errs) == \E i \in 1..Len(errs) : Contains("NoTranscript", errs[i])

\* the no-transcript rule tried before the disabled rule
ClassifyRecNoTranscriptFirst(errs) ==
    IF NamesNoTranscript(errs) THEN StrResult(NoTranscriptMsg)
    ELSE IF MentionsDisabled(errs) THEN StrResult(CaptionsDisabledMsg)
    ELSE StrResult("No transcript found. Debug: "
                   \o (IF Len(errs) > 0 THEN Join("; ", errs) ELSE "No methods succeeded"))

\* only the last note reported
ClassifyRecLastNote(errs) ==
    IF MentionsDisabled(errs) THEN StrResult(CaptionsDisabledMsg)
    ELSE IF NamesNoTranscript(errs) THEN StrResult(NoTranscriptMsg)
    ELSE StrResult("No transcript found. Debug: "
                   \o (IF Len(errs) > 0 THEN errs[Len(errs)] ELSE "No methods succeeded"))

\* lines 247-255
ClassifyRec(errs) ==
    IF MentionsDisabled(errs) THEN StrResult(CaptionsDisabledMsg)
    ELSE IF NamesTranscriptsDisabled(errs) THEN StrResult(TranscriptsDisabledMsg)
    ELSE IF NamesNoTranscript(errs) THEN StrResult(NoTranscriptMsg)
    ELSE StrResult("No transcript found. Debug: "
                   \o (IF Len(errs) > 0 THEN Join("; ", errs) ELSE "No methods succeeded"))

\* lines 257-258
SystemError(e) == StrResult("System Error: " \o e.msg)

----------------------------------------------------------------------------
(* Diagnostic notes of the strategies *)

\* lines 93-104: the note of a failed static get_transcript
StaticGetNote(e) ==
    IF e.cls \in CaughtKinds THEN "Static get_transcript: " \o e.cls
    ELSE IF Contains("Subtitles are disabled", e.msg)
    THEN "Subtitles are disabled for this video"
    ELSE IF Contains("No transcript", Lower(e.msg)) THEN "No transcript available"
    ELSE "Static get_transcript failed: " \o Slice(e.msg, 100)

\* lines 139-146: errors after list_transcripts raised e
StaticListErrors(errs, e) ==
    IF e.cls \in CaughtKinds THEN Append(errs, "Static list_transcripts: " \o e.cls)
    ELSE IF ~Contains("Subtitles are disabled", e.msg)
    THEN Append(errs, "Static list_transcripts: " \o Slice(e.msg, 80))
    ELSE errs

\* lines 153-155
CtorNote(e) == "Cannot instantiate API: " \o Slice(e.msg, 50)

\* lines 159-170: the note of a failed api.list
InstanceListNote(e) ==
    IF e.cls \in CaughtKinds THEN "Instance list: " \o e.cls
    ELSE IF Contains("Subtitles are disabled", e.msg) THEN "Subtitles disabled"
    ELSE IF Contains("No transcript", Lower(e.msg)) THEN "No transcript available"
    ELSE "Instance list failed: " \o Slice(e.msg, 80)

\* lines 87-104
static_get(o, errs) ==
    IF o.k = "ret" THEN [ret |-> o.p, errors |-> errs]
    ELSE [ret |-> PyNonePayload, errors |-> Append(errs, StaticGetNote(o.e))]

----------------------------------------------------------------------------
(* get_video_transcript *)

\* the note list kept from the call before
EnterCallKeepsNotes(errs, raw) == [errors |-> errs, raw_data |-> PyNonePayload]

\* lines 217-218: the locals at the start of a call
EnterCall(errs, raw) == [errors |-> <<>>, raw_data |-> PyNonePayload]

Done(r) == [pc |-> "done", result |-> r]

\* strategy 3 left out
EntryPcSkipsInstance == <<"s1", "s2", "s4", "s4">>

\* the direct call made again after it failed
EntryPcRetriesDirect == <<"s1", "s1", "s3", "s4">>

\* lines 222, 226, 230, 233: where each strategy starts
EntryPc == <<"s1", "s2", "s3", "s4">>

\* the tests `if not raw_data` of lines 225, 229 and 233 left out
ContinuePastPayload(k, p, errs) ==
    IF p.truth = "raises" THEN [pc |-> "done", result |-> SystemError(BadBoolExc)]
    ELSE IF k < 4 THEN [pc |-> EntryPc[k + 1], result |-> NoResult]
    ELSE IF p.truth = "yes" THEN [pc |-> "done", result |-> ValidateRec(p)]
    ELSE [pc |-> "done", result |-> ClassifyRec(errs)]

\* a payload that normalizes to nothing is passed over like an empty one
ContinuePastUnusable(k, p, errs) ==
    IF p.truth = "raises" THEN Done(SystemError(BadBoolExc))
    ELSE IF p.truth = "yes" /\ Len(normalize_transcript(p)) > 0 THEN Done(ValidateRec(p))
    ELSE IF k < 4 THEN [pc |-> EntryPc[k + 1], result |-> NoResult]
    ELSE Done(ClassifyRec(errs))

\* lines 225-258: what get_video_transcript does once strategy k has left p in
\* raw_data: bool(raw_data) raising ends in the outer except clause, a true
\* payload skips the remaining strategies and is validated, a false one leads to
\* the next strategy or, after the last, to the classifier
Continue(k, p, errs) ==
    IF p.truth = "raises" THEN Done(SystemError(BadBoolExc))
    ELSE IF p.truth = "yes" THEN Done(ValidateRec(p))
    ELSE IF k < 4 THEN [pc |-> EntryPc[k + 1], result |-> NoResult]
    ELSE Done(ClassifyRec(errs))

\* strategy k is over after the invocations log: raw_data becomes raw, the
\* notes are errs (ferrs in the same call made in a new process); the locals
\* of the strategy are gone
Finish(k, raw, errs, ferrs, log) ==
    LET c == Continue(k, raw, errs)
    IN  /\ errors' = errs
        /\ raw_data' = raw
        /\ yielded' = Append(yielded, IF raw.truth = "yes" THEN raw ELSE PyNonePayload)
        /\ pc' = c.pc
        /\ result' = c.result
        /\ calls' = IF c.pc = "done" THEN log ELSE <<>>
        /\ raised_in' = raised_in \cup RaisedIn(log)
        /\ transcript_list' = NoListing
        /\ tracks_seen' = 0
        /\ fresh' = [errors |-> ferrs,
                     result |-> IF ferrs = errs THEN c.result
                                ELSE Continue(k, raw, ferrs).result]

\* the strategy in progress goes on at `next` with the track listing tl
Inside(next, tl, seen, log) ==
    /\ pc' = next
    /\ calls' = log
    /\ raised_in' = raised_in \cup RaisedIn(log)
    /\ transcript_list' = tl
    /\ tracks_seen' = seen
    /\ UNCHANGED <<errors, raw_data, yielded, result, fresh>>

Invoke(s, op, languages, r) == Append(calls, Call(s, op, languages, r))

InvokeOn(s, op, languages, r, t) == Append(calls, CallOn(s, op, languages, r, t))

\* the locals `transcript` (lines 116, 123, 130) and `t` (lines 178, 186, 193):
\* the track the last lookup or step of the iteration handed out
Current == calls[Len(calls)].t

client == <<has_get_transcript, has_list_transcripts, has_list>>

\* what no step inside a call changes
outside == <<client, earlier_notes, norm_vars, app_vars>>

\* line 206: a call of get_video_transcript begins
Begin ==
    /\ pc \in {"idle", "done"}
    /\ errors' = EnterCall(errors, raw_data).errors
    /\ raw_data' = EnterCall(errors, raw_data).raw_data
    /\ fresh' = [errors |-> <<>>, result |-> NoResult]
    /\ earlier_notes' = (earlier_notes \/ Len(errors) > 0)
    /\ result' = NoResult
    /\ attempted' = <<>>
    /\ calls' = <<>>
    /\ raised_in' = {}
    /\ yielded' = <<>>
    /\ transcript_list' = NoListing
    /\ tracks_seen' = 0
    /\ pc' = "s1"
    /\ UNCHANGED <<client, norm_vars, app_vars>>

\* lines 222, 87-104: strategy 1
try_static_get_transcript ==
    /\ pc = "s1"
    /\ attempted' = Append(attempted, 1)
    /\ IF ~has_get_transcript
       THEN Finish(1, PyNonePayload, errors, fresh.errors, calls)
       ELSE \E o \in FetchOutcomes :
            Finish(1, static_get(o, errors).ret, static_get(o, errors).errors,
                   static_get(o, fresh.errors).errors,
                   Invoke(1, "get_transcript", <<"en", "en-US", "en-GB">>, FetchKind(o)))
    /\ UNCHANGED outside

\* the first six language codes, passed by strategies 2 and 3
Preferred == SubSeq(LANGUAGES_TO_TRY, 1, 6)

\* lines 226, 107-112, 139-146: strategy 2 probes and calls list_transcripts
try_static_list_transcripts ==
    /\ pc = "s2"
    /\ attempted' = Append(attempted, 2)
    /\ IF ~has_list_transcripts
       THEN Finish(2, PyNonePayload, errors, fresh.errors, calls)
       ELSE \E o \in ListOutcomes({Listing("yes", TRUE, TRUE)}) :
            IF o.k = "raise"
            THEN Finish(2, PyNonePayload, StaticListErrors(errors, o.e),
                        StaticListErrors(fresh.errors, o.e),
                        Invoke(2, "list_transcripts", <<>>, o.k))
            ELSE Inside("s2_find_manual", o.l, 0, Invoke(2, "list_transcripts", <<>>, o.k))
    /\ UNCHANGED outside

\* lines 115-116
static_find_manual ==
    /\ pc = "s2_find_manual"
    /\ \E o \in FindOutcomes :
       Inside(IF o.k = "ret" THEN "s2_fetch_manual" ELSE "s2_find_generated",
              transcript_list, tracks_seen,
              InvokeOn(2, "find_manually_created_transcript", Preferred, o.k, o.t))
    /\ UNCHANGED <<attempted, outside>>

\* the payload of the manual track is dropped and the generated track is tried
StaticFetchManualGoesOn ==
    /\ pc = "s2_fetch_manual"
    /\ \E o \in FetchOutcomes :
       Inside("s2_find_generated", transcript_list, tracks_seen,
              InvokeOn(2, "fetch", <<>>, FetchKind(o), Current))
    /\ UNCHANGED <<attempted, outside>>

\* lines 117-119
static_fetch_manual ==
    /\ pc = "s2_fetch_manual"
    /\ \E o \in FetchOutcomes :
       IF o.k = "ret"
       THEN Finish(2, o.p, errors, fresh.errors, InvokeOn(2, "fetch", <<>>, FetchKind(o), Current))
       ELSE Inside("s2_find_generated", transcript_list, tracks_seen,
                   InvokeOn(2, "fetch", <<>>, FetchKind(o), Current))
    /\ UNCHANGED <<attempted, outside>>

\* lines 122-123
static_find_generated ==
    /\ pc = "s2_find_generated"
    /\ \E o \in FindOutcomes :
       Inside(IF o.k = "ret" THEN "s2_fetch_generated" ELSE "s2_next",
              transcript_list, tracks_seen,
              InvokeOn(2, "find_generated_transcript", Preferred, o.k, o.t))
    /\ UNCHANGED <<attempted, outside>>

\* the payload of the generated track is dropped and the iteration is tried
StaticFetchGeneratedGoesOn ==
    /\ pc = "s2_fetch_generated"
    /\ \E o \in FetchOutcomes :
       Inside("s2_next", transcript_list, tracks_seen,
              InvokeOn(2, "fetch", <<>>, FetchKind(o), Current))
    /\ UNCHANGED <<attempted, outside>>

\* lines 124-126
static_fetch_generated ==
    /\ pc = "s2_fetch_generated"
    /\ \E o \in FetchOutcomes :
       IF o.k = "ret"
       THEN Finish(2, o.p, errors, fresh.errors, InvokeOn(2, "fetch", <<>>, FetchKind(o), Current))
       ELSE Inside("s2_next", transcript_list, tracks_seen, InvokeOn(2, "fetch", <<>>, FetchKind(o), Current))
    /\ UNCHANGED <<attempted, outside>>

\* lines 129-130, 135-138: the any-track loop asks the listing for its next track
static_next_track ==
    /\ pc = "s2_next"
    /\ \E o \in NextOutcomes :
       /\ o.k = "ret" => tracks_seen < MaxTracks
       /\ IF o.k = "ret"
          THEN Inside("s2_fetch_any", transcript_list, tracks_seen + 1,
                      InvokeOn(2, "next", <<>>, o.k, tracks_seen + 1))
          ELSE Finish(2, PyNonePayload, errors, fresh.errors, Invoke(2, "next", <<>>, o.k))
    /\ UNCHANGED <<attempted, outside>>

\* lines 131-134
static_fetch_any ==
    /\ pc = "s2_fetch_any"
    /\ \E o \in FetchOutcomes :
       IF o.k = "ret"
       THEN Finish(2, o.p, errors, fresh.errors, InvokeOn(2, "fetch", <<>>, FetchKind(o), Current))
       ELSE Inside("s2_next", transcript_list, tracks_seen, InvokeOn(2, "fetch", <<>>, FetchKind(o), Current))
    /\ UNCHANGED <<attempted, outside>>

\* lines 230, 151-155: strategy 3 builds the client instance
try_instance_api ==
    /\ pc = "s3"
    /\ attempted' = Append(attempted, 3)
    /\ \E o \in TrackOutcomes :
       IF o.k = "raise"
       THEN Finish(3, PyNonePayload, Append(errors, CtorNote(o.e)),
                   Append(fresh.errors, CtorNote(o.e)),
                   Invoke(3, "YouTubeTranscriptApi", <<>>, o.k))
       ELSE Inside("s3_list", transcript_list, tracks_seen,
                   Invoke(3, "YouTubeTranscriptApi", <<>>, o.k))
    /\ UNCHANGED outside

\* lines 176-177, 184-185, 192: where strategy 3 goes on after the step `after`
\* ("list" or "find") on the listing tl, probing the lookups it offers
InstanceAfter(after, tl) ==
    IF after = "list" /\ tl.has_find_transcript THEN "s3_find"
    ELSE IF tl.has_find_generated_transcript THEN "s3_find_generated"
    ELSE "s3_next"

\* lines 157-173
instance_list ==
    /\ pc = "s3_list"
    /\ IF ~has_list
       THEN Finish(3, PyNonePayload, Append(errors, InstanceListNote(NoListMethod)),
                   Append(fresh.errors, InstanceListNote(NoListMethod)), calls)
       ELSE \E o \in ListOutcomes(Listings) :
            IF o.k = "raise"
            THEN Finish(3, PyNonePayload, Append(errors, InstanceListNote(o.e)),
                        Append(fresh.errors, InstanceListNote(o.e)),
                        Invoke(3, "list", <<>>, o.k))
            ELSE IF o.l.truth = "no"
            THEN Finish(3, PyNonePayload, errors, fresh.errors, Invoke(3, "list", <<>>, o.k))
            ELSE Inside(InstanceAfter("list", o.l), o.l, 0, Invoke(3, "list", <<>>, o.k))
    /\ UNCHANGED <<attempted, outside>>

\* lines 176-178
instance_find ==
    /\ pc = "s3_find"
    /\ \E o \in FindOutcomes :
       Inside(IF o.k = "ret" THEN "s3_fetch_found"
              ELSE InstanceAfter("find", transcript_list),
              transcript_list, tracks_seen, InvokeOn(3, "find_transcript", Preferred, o.k, o.t))
    /\ UNCHANGED <<attempted, outside>>

\* lines 179-181
instance_fetch_found ==
    /\ pc = "s3_fetch_found"
    /\ \E o \in FetchOutcomes :
       IF o.k = "ret"
       THEN Finish(3, o.p, errors, fresh.errors, InvokeOn(3, "fetch", <<>>, FetchKind(o), Current))
       ELSE Inside(InstanceAfter("find", transcript_list), transcript_list,
                   tracks_seen, InvokeOn(3, "fetch", <<>>, FetchKind(o), Current))
    /\ UNCHANGED <<attempted, outside>>

\* lines 184-186
instance_find_generated ==
    /\ pc = "s3_find_generated"
    /\ \E o \in FindOutcomes :
       Inside(IF o.k = "ret" THEN "s3_fetch_generated" ELSE "s3_next",
              transcript_list, tracks_seen,
              InvokeOn(3, "find_generated_transcript", Preferred, o.k, o.t))
    /\ UNCHANGED <<attempted, outside>>

\* lines 187-189
instance_fetch_generated ==
    /\ pc = "s3_fetch_generated"
    /\ \E o \in FetchOutcomes :
       IF o.k = "ret"
       THEN Finish(3, o.p, errors, fresh.errors, InvokeOn(3, "fetch", <<>>, FetchKind(o), Current))
       ELSE Inside("s3_next", transcript_list, tracks_seen, InvokeOn(3, "fetch", <<>>, FetchKind(o), Current))
    /\ UNCHANGED <<attempted, outside>>

\* lines 192-193, 200-203
instance_next_track ==
    /\ pc = "s3_next"
    /\ \E o \in NextOutcomes :
       /\ o.k = "ret" => tracks_seen < MaxTracks
       /\ IF o.k = "ret"
          THEN Inside("s3_fetch_any", transcript_list, tracks_seen + 1,
                      InvokeOn(3, "next", <<>>, o.k, tracks_seen + 1))
          ELSE Finish(3, PyNonePayload, errors, fresh.errors, Invoke(3, "next", <<>>, o.k))
    /\ UNCHANGED <<attempted, outside>>

\* lines 194-199: a payload is handed back only if it is true
instance_fetch_any ==
    /\ pc = "s3_fetch_any"
    /\ \E o \in FetchOutcomes :
       IF o.k = "ret" /\ o.p.truth = "yes"
       THEN Finish(3, o.p, errors, fresh.errors, InvokeOn(3, "fetch", <<>>, FetchKind(o), Current))
       ELSE Inside("s3_next", transcript_list, tracks_seen, InvokeOn(3, "fetch", <<>>, FetchKind(o), Current))
    /\ UNCHANGED <<attempted, outside>>

\* lines 233-237: strategy 4; a raise leaves raw_data as it is
extended_get_transcript ==
    /\ pc = "s4"
    /\ attempted' = Append(attempted, 4)
    /\ IF ~has_get_transcript
       THEN Finish(4, raw_data, errors, fresh.errors, calls)
       ELSE \E o \in FetchOutcomes :
            Finish(4, IF o.k = "ret" THEN o.p ELSE raw_data, errors, fresh.errors,
                   Invoke(4, "get_transcript", LANGUAGES_TO_TRY, FetchKind(o)))
    /\ UNCHANGED outside

----------------------------------------------------------------------------
(* A direct call of normalize_transcript *)

\* list(data) raising is not caught: lines 39 and 41-42 left out
NormalizeEndsUncaught(d) ==
    IF (IF d.attr # "absent" THEN d.attr ELSE d.seq) = "no" THEN "raised" ELSE "done"

\* how a call of normalize_transcript ends: the exception of list(data) is
\* caught at line 41 and that of an entry at line 80, so the call returns
NormalizeEnds(d) == "done"

\* the argument emptied as its entries are read
LeftDrained(d) == [d EXCEPT !.items = <<>>]

\* lines 34-44: the argument object after the call; the function rebinds its
\* local name only, and list(data) of line 40 uses up an iterator
LeftAs(d) ==
    IF d.attr = "absent" /\ d.seq = "once" THEN [d EXCEPT !.items = <<>>] ELSE d

\* lines 25-84
NormalizeCall ==
    /\ npc = "start"
    /\ snippets' = normalize_transcript(data)
    /\ data_after' = LeftAs(data)
    /\ npc' = NormalizeEnds(data)
    /\ UNCHANGED <<data, fetch_vars, app_vars>>

----------------------------------------------------------------------------
(* Specifications *)

Idle ==
    /\ pc = "idle"
    /\ errors = <<>>
    /\ raw_data = PyNonePayload
    /\ transcript_list = NoListing
    /\ tracks_seen = 0
    /\ result = NoResult
    /\ attempted = <<>>
    /\ calls = <<>>
    /\ raised_in = {}
    /\ yielded = <<>>
    /\ fresh = [errors |-> <<>>, result |-> NoResult]
    /\ earlier_notes = FALSE

\* no direct call of normalize_transcript
NormIdle ==
    /\ data = PyNonePayload
    /\ data_after = PyNonePayload
    /\ snippets = <<>>
    /\ npc = "off"

\* an empty session
NoSession == [k \in {} |-> PyNone]

\* no call of get_api_key
KeyIdle ==
    /\ local_storage = Returned(PyNone)
    /\ api_key_file = Returned(Absent)
    /\ secrets = Returned(Absent)
    /\ environ = Absent
    /\ api_key = Absent
    /\ asked_with = NoSession
    /\ kpc = "off"

\* no call of save_api_key_to_storage or clear_api_key_from_storage
StoreIdle ==
    /\ key_arg = ""
    /\ clear_ret = PyNone
    /\ spc = "off"

\* a dictionary without entries
EmptyDict == [k \in {} |-> PyNone]

\* dashboard_config.json: missing, holding a dictionary, or cut short
NoFile == [status |-> "missing", content |-> EmptyDict]
Written(d) == [status |-> "written", content |-> d]
Truncated == [status |-> "truncated", content |-> EmptyDict]

\* no call of save_config
ConfigIdle ==
    /\ config_file = NoFile
    /\ cpc = "off"

\* an API method that the call did not reach
NotCalled == [k |-> "none", has_items |-> FALSE, items |-> <<>>]

\* no call of resolve_channel_id
ChannelIdle ==
    /\ query = ""
    /\ handle_resp = NotCalled
    /\ search_resp = NotCalled
    /\ channel_id = Absent
    /\ channel_cache = EmptyDict
    /\ rpc = "off"

\* analyze_title has not returned
NoAnalysis == [score |-> -1, suggestions |-> <<>>]

\* no call of analyze_title
TitleIdle ==
    /\ title = ""
    /\ target_keyword = ""
    /\ title_analysis = NoAnalysis
    /\ tpc = "off"

\* the application part is not running
AppIdle ==
    /\ session_state = NoSession
    /\ KeyIdle
    /\ StoreIdle
    /\ ConfigIdle
    /\ ChannelIdle
    /\ TitleIdle

\* the installed client offers any subset of its three capabilities
Init ==
    /\ has_get_transcript \in BOOLEAN
    /\ has_list_transcripts \in BOOLEAN
    /\ has_list \in BOOLEAN
    /\ Idle
    /\ NormIdle
    /\ AppIdle

Next ==
    \/ Begin
    \/ try_static_get_transcript
    \/ try_static_list_transcripts
    \/ static_find_manual
    \/ static_fetch_manual
    \/ static_find_generated
    \/ static_fetch_generated
    \/ static_next_track
    \/ static_fetch_any
    \/ try_instance_api
    \/ instance_list
    \/ instance_find
    \/ instance_fetch_found
    \/ instance_find_generated
    \/ instance_fetch_generated
    \/ instance_next_track
    \/ instance_fetch_any
    \/ extended_get_transcript

Spec == Init /\ [][Next]_vars

----------------------------------------------------------------------------
(* Direct calls of normalize_transcript on bounded inputs *)

NormEntries ==
    { Hello,
      DictEntry(PyStr(""), PyFloat(1), PyFloat(2), FALSE),
      DictEntry(PyStr("big"), PyBigInt(1), PyInt(1), FALSE),
      DictEntry(PyStr("even"), PyBigInt(2), PyBigFloat(4), FALSE),
      DictEntry(PyStr("huge"), PyInt(0), PyHugeInt, FALSE),
      DictEntry(Absent, Absent, Absent, FALSE),
      DictEntry(PyInt(5), PyStr("1.0"), PyStr("2"), FALSE),
      DictEntry(PyStr("bad"), PyStr("abc"), PyInt(1), FALSE),
      DictEntry(PyStr("none"), PyInt(1), PyNone, FALSE),
      DictEntry(PyStr("more"), PyInt(1), PyInt(2), TRUE),
      ObjEntry(PyStr("World"), PyInt(0), PyInt(1), "Snippet", TRUE),
      ObjEntry(PyStr("bare"), Absent, Absent, "Snippet", TRUE),
      ObjEntry(PyStr("late"), PyNone, PyInt(1), "Snippet", TRUE),
      ObjEntry(PyTextDict("X"), PyInt(1), PyFloat(2), "Snippet", TRUE),
      ObjEntry(PyEmptyDict, PyInt(1), Absent, "Snippet", TRUE),
      ObjEntry(PyOtherDict("en"), Absent, PyInt(1), "Snippet", TRUE),
      ObjEntry(PyNoneTextDict, PyInt(0), PyInt(2), "Snippet", TRUE),
      ObjEntry(PyNone, PyStr("abc"), PyInt(1), "Snippet", TRUE),
      ObjEntry(PyInt(7), PyInt(1), PyInt(2), "Snippet", TRUE),
      ObjEntry(Absent, Absent, Absent, "5", TRUE),
      ObjEntry(Absent, PyInt(1), PyInt(1), "", FALSE) }

EntryLists == UNION {[1..n -> NormEntries] : n \in 0..MaxLen}

NormInputs ==
    {PyList(l) : l \in EntryLists}
    \cup {PyTuple(l) : l \in EntryLists}
    \cup {FetchedTranscript(l) : l \in EntryLists}
    \cup {TranscriptObj(l) : l \in EntryLists}
    \cup {PyGenerator(l) : l \in EntryLists}
    \cup {PyNonePayload, PyIntPayload, BrokenTranscriptObj, BadBool, RaisingGenerator}

InitNorm ==
    /\ has_get_transcript = TRUE
    /\ has_list_transcripts = TRUE
    /\ has_list = TRUE
    /\ Idle
    /\ AppIdle
    /\ data \in NormInputs
    /\ data_after = data
    /\ snippets = <<>>
    /\ npc = "start"

NextNorm == NormalizeCall

SpecNorm == InitNorm /\ [][NextNorm]_vars

----------------------------------------------------------------------------
(* Properties of get_video_transcript *)

\* a canonical record: the three fields, text a string, start and duration floats
IsRecord(r) ==
    /\ DOMAIN r = {"text", "start", "duration"}
    /\ r.text \in STRING
    /\ r.start.t \in {"float", "bigfloat"}
    /\ r.duration.t \in {"float", "bigfloat"}

\* no strategy that is over handed back a payload
NoPayload == \A i \in 1..Len(yielded) : yielded[i] = PyNonePayload

\* the call is over and all four strategies failed
AllFailed ==
    /\ pc = "done"
    /\ attempted = <<1, 2, 3, 4>>
    /\ Len(yielded) = 4
    /\ NoPayload
    /\ raw_data.truth = "no"

\* the first true payload a strategy handed back
FirstPayload ==
    yielded[CHOOSE i \in 1..Len(yielded) :
              /\ yielded[i].truth = "yes"
              /\ \A j \in 1..(i - 1) : yielded[j].truth # "yes"]

\* C1: whatever the client does, get_video_transcript returns a non-empty list
\* of canonical records or a string: no exception, no None, no empty list
C1_ListOrString ==
    pc = "done" =>
        \/ result.kind = "str"
        \/ /\ result.kind = "list"
           /\ Len(result.items) > 0
           /\ \A i \in 1..Len(result.items) : IsRecord(result.items[i])

\* an exception of the client that no strategy expects ended as a string
C1_Witness == pc = "done" /\ raw_data = BadBool /\ result = SystemError(BadBoolExc)

\* C2: a list returned by get_video_transcript is normalize_transcript of the
\* payload of the first strategy, in the order 1 to 4, that handed back a
\* non-empty payload; the direct-call payload [{text: 'Hello', start: 0,
\* duration: 1}] gives [{text: 'Hello', start: 0.0, duration: 1.0}]
C2_FirstPayloadNormalized ==
    (pc = "done" /\ ~NoPayload) =>
        /\ \A i \in 1..Len(yielded) : attempted[i] = i
        /\ Len(normalize_transcript(FirstPayload)) > 0
              => result = ListResult(normalize_transcript(FirstPayload))
        /\ result.kind = "list" => result.items = normalize_transcript(FirstPayload)
        /\ yielded[1] = PyList(<<Hello>>)
              => result = ListResult(<<Record("Hello", PyFloat(0), PyFloat(1))>>)

\* the third strategy is the first to hand back a payload, which is returned
C2_Witness ==
    /\ pc = "done"
    /\ Len(yielded) = 3
    /\ yielded[1] = PyNonePayload
    /\ yielded[2] = PyNonePayload
    /\ yielded[3].cls = "FetchedTranscript"
    /\ result.kind = "list"
    /\ Len(result.items) = 2
    /\ result.items[2] = Record("World", PyFloat(1), PyFloat(2))

\* C3: the strategies are entered in the order 1, 2, 3, 4; once a strategy has
\* handed back a non-empty payload the call is over with that strategy the last
\* one entered, so no later strategy calls the client; strategy 4 is entered
\* only after strategies 1 to 3 produced no payload
C3_OrderAndStop ==
    /\ \A i \in 1..Len(attempted) : attempted[i] = i
    /\ \A i \in 1..Len(yielded) :
          yielded[i].truth = "yes" => (pc = "done" /\ Len(attempted) = i)
    /\ \A j \in 1..Len(calls) : calls[j].s = attempted[Len(attempted)]
    /\ Len(attempted) = 4 =>
          /\ Len(yielded) >= 3
          /\ \A i \in 1..3 : yielded[i] = PyNonePayload

\* strategy 2 handed back a payload: strategies 3 and 4 were never entered
C3_Witness ==
    /\ pc = "done"
    /\ attempted = <<1, 2>>
    /\ yielded[2].truth = "yes"
    /\ result.kind = "list"
    /\ calls[Len(calls)] = CallOn(2, "fetch", <<>>, "content", 1)

\* C4: a strategy that fails (the client raises, hands back an empty payload or
\* lacks the capability) does not end the call: a call ends without a payload
\* only after all four strategies were entered
C4_FailureGoesOn ==
    (pc = "done" /\ NoPayload /\ raw_data.truth # "raises") =>
        /\ attempted = <<1, 2, 3, 4>>
        /\ Len(yielded) = 4
        /\ result.kind = "str"

\* strategies 1 to 3 each recorded a note and strategy 4 was still entered
C4_Witness ==
    /\ AllFailed
    /\ Len(errors) = 3
    /\ calls = <<Call(4, "get_transcript", LANGUAGES_TO_TRY, "raise")>>

SaysDisabled(note) == Contains("disabled", Lower(note))

\* C5: all four strategies failed and a note mentions captions or subtitles
\* being disabled: the captions-are-disabled message is returned, also when a
\* no-transcript note is present
C5_DisabledFirst ==
    (AllFailed /\ \E i \in 1..Len(errors) : SaysDisabled(errors[i]))
        => result = StrResult(CaptionsDisabledMsg)

\* a disabled note after a no-transcript note
C5_Witness ==
    /\ AllFailed
    /\ Len(errors) = 2
    /\ errors[1] = "Static get_transcript: NoTranscriptFound"
    /\ errors[2] = "Subtitles disabled"
    /\ result = StrResult(CaptionsDisabledMsg)

\* C6 (as claimed): all four strategies failed and a note names
\* TranscriptsDisabled: the transcripts-are-disabled message is returned
C6_TranscriptsDisabledMessage ==
    (AllFailed /\ \E i \in 1..Len(errors) : Contains("TranscriptsDisabled", errors[i]))
        => result = StrResult(TranscriptsDisabledMsg)

StartsWith(prefix, s) == Len(s) >= Len(prefix) /\ SubSeq(s, 1, Len(prefix)) = prefix

\* C7 (as claimed): all four strategies failed, no note says disabled, and a
\* note records a no-transcript condition, by the kind of the exception or, for
\* the direct fetch and the instance listing, by its message: the no-transcript
\* message is returned
C7_NoTranscriptMessage ==
    (/\ AllFailed
     /\ \A i \in 1..Len(errors) : ~SaysDisabled(errors[i])
     /\ \E i \in 1..Len(errors) :
           \/ Contains("NoTranscript", errors[i])
           \/ /\ Contains("no transcript", Lower(errors[i]))
              /\ \/ StartsWith("Static get_transcript failed: ", errors[i])
                 \/ StartsWith("Instance list failed: ", errors[i]))
        => result = StrResult(NoTranscriptMsg)

\* no rule of the classifier but the last applies to the notes
Unclassified ==
    \A i \in 1..Len(errors) :
        /\ ~SaysDisabled(errors[i])
        /\ ~Contains("TranscriptsDisabled", errors[i])
        /\ ~Contains("NoTranscript", errors[i])

\* C8: all four strategies failed and no note matches the disabled or
\* no-transcript rules: the string returned is not empty and contains the notes
\* joined in the order they were recorded, or a fixed phrase if there is none
C8_GenericMessage ==
    (AllFailed /\ Unclassified) =>
        /\ result.kind = "str"
        /\ Len(result.s) > 0
        /\ IF Len(errors) > 0 THEN Contains(Join("; ", errors), result.s)
           ELSE Contains("No methods succeeded", result.s)

\* two unclassified notes are reported
C8_Witness ==
    /\ AllFailed
    /\ Unclassified
    /\ Len(errors) = 2
    /\ errors[1] # errors[2]
    /\ Contains(errors[1] \o "; " \o errors[2], result.s)

\* C9: a call does not depend on the calls before it: it starts with an empty
\* note list and no payload, and its notes and its result are those of the
\* same call, fed the same client responses, made first in a new process
C9_CallsIndependent ==
    /\ errors = fresh.errors
    /\ result = fresh.result
    /\ pc = "s1" => (errors = <<>> /\ raw_data = PyNonePayload)

\* a call that follows a call that recorded notes, and records notes itself
C9_Witness ==
    /\ earlier_notes
    /\ pc = "done"
    /\ Len(errors) > 0
    /\ result.kind = "str"

----------------------------------------------------------------------------
(* Properties of normalize_transcript *)

IsNumber(v) == v.t \in {"int", "float", "bigint", "bigfloat", "hugeint"}

\* the mathematical value of a number
Magnitude(v) ==
    CASE v.t \in {"int", "float"}       -> <<"small", v.n>>
      [] v.t \in {"bigint", "bigfloat"} -> <<"big", v.n>>
      [] OTHER                          -> <<"huge", 0>>

\* Python's == on two numbers
NumEq(a, b) == IsNumber(a) /\ IsNumber(b) /\ Magnitude(a) = Magnitude(b)

\* an int or float that a float holds exactly: float(v) == v
ExactNumber(v) ==
    \/ v.t \in {"int", "float", "bigfloat"}
    \/ v.t = "bigint" /\ v.n % 2 = 0

\* a mapping with exactly text (a string), start and duration (numbers)
CanonicalEntry(e) ==
    /\ e.kind = "dict"
    /\ ~e.extra
    /\ e.text.t = "str"
    /\ IsNumber(e.start)
    /\ IsNumber(e.duration)

\* Python's == between a record normalize_transcript built and an input entry
RecordEqEntry(r, e) ==
    /\ e.kind = "dict"
    /\ ~e.extra
    /\ e.text.t = "str" /\ e.text.s = r.text
    /\ NumEq(r.start, e.start)
    /\ NumEq(r.duration, e.duration)

\* normalize_transcript(data) == data
OutputEqInput ==
    /\ Len(snippets) = Len(data.items)
    /\ \A i \in 1..Len(snippets) : RecordEqEntry(snippets[i], data.items[i])

CanonicalInput ==
    /\ data.cls = "list"
    /\ \A i \in 1..Len(data.items) : CanonicalEntry(data.items[i])

\* C10 (as claimed): normalize_transcript(records) == records for every list of
\* mappings with text a string and start and duration numbers
C10_IdentityOnNumbers == (npc = "done" /\ CanonicalInput) => OutputEqInput

\* C10 (amended): normalize_transcript(records) == records, same length and
\* order, for every list of mappings with text a string and start and duration
\* floats or ints that a float holds exactly
C10_IdentityOnExactNumbers ==
    (/\ npc = "done"
     /\ CanonicalInput
     /\ \A i \in 1..Len(data.items) :
           ExactNumber(data.items[i].start) /\ ExactNumber(data.items[i].duration))
        => OutputEqInput

\* two canonical entries, one with int and one with float fields
C10_Witness ==
    /\ npc = "done"
    /\ data = PyList(<<Hello, DictEntry(PyStr(""), PyFloat(1), PyFloat(2), FALSE)>>)
    /\ snippets = <<Record("Hello", PyFloat(0), PyFloat(1)),
                    Record("", PyFloat(1), PyFloat(2))>>

----------------------------------------------------------------------------
(* Payload objects with a snippets attribute *)

\* the payload is an object whose snippets attribute holds its entries
HoldsSnippets == data.attr \in {"list", "iter"}

\* every entry has a text that is a string
StringTexts == \A i \in 1..Len(data.items) : data.items[i].text.t = "str"

\* one record per entry, in order, with the entry's text
TextsKept ==
    /\ Len(snippets) = Len(data.items)
    /\ \A i \in 1..Len(snippets) : snippets[i].text = data.items[i].text.s

\* a start or duration that is missing or that float() accepts
FloatAccepts(v) ==
    \/ v.t \in {"absent", "int", "float", "bigint", "bigfloat"}
    \/ v.t = "str" /\ v.s \in {"0", "1", "2", "1.0", "2.0"}

----------------------------------------------------------------------------
(* Entries that raise while they are normalized *)

\* the payload, or its snippets attribute, can be iterated
Iterable == (IF data.attr # "absent" THEN data.attr ELSE data.seq) # "no"

\* normalizing entry e raises: float() rejects its start or duration (CASE B,
\* C and D), or str() of it raises (CASE E)
EntryRaises(e) ==
    IF e.kind = "dict" \/ e.text.t # "absent"
    THEN ~(FloatAccepts(e.start) /\ FloatAccepts(e.duration))
    ELSE ~e.strOk

\* positions of the entries that normalize without error
Kept == {i \in 1..Len(data.items) : ~EntryRaises(data.items[i])}

\* position in the output of the record of kept entry i
Rank(i) == Cardinality({j \in Kept : j <= i})

\* C12: the output of normalize_transcript is exactly the records of the
\* entries that normalized without error, in their original relative order;
\* an entry that raises is dropped and does not stop the loop
C12_RaisingEntriesDropped ==
    (npc = "done" /\ Iterable) =>
        /\ Len(snippets) = Cardinality(Kept)
        /\ Len(snippets) <= Len(data.items)
        /\ \A i \in Kept : snippets[Rank(i)] = NormalizeItem(data.items[i]).rec

\* an entry that raises, followed by one that does not
C12_Witness ==
    /\ npc = "done"
    /\ data = PyList(<<DictEntry(PyStr("none"), PyInt(1), PyNone, FALSE),
                       ObjEntry(PyStr("World"), PyInt(0), PyInt(1), "Snippet", TRUE)>>)
    /\ snippets = <<Record("World", PyFloat(0), PyFloat(1))>>

----------------------------------------------------------------------------
(* Empty and un-coercible input *)

----------------------------------------------------------------------------
(* Shape of the records *)

\* C14: every record of every list normalize_transcript returns has exactly
\* the fields text, start and duration, text a string and start and duration
\* floats, whatever the shape of the input entries
C14_RecordsComplete ==
    npc = "done" => \A i \in 1..Len(snippets) : IsRecord(snippets[i])

\* a mapping without any key and an object without any attribute
C14_Witness ==
    /\ npc = "done"
    /\ data = PyList(<<DictEntry(Absent, Absent, Absent, FALSE),
                       ObjEntry(Absent, Absent, Absent, "5", TRUE)>>)
    /\ snippets = <<Record("", PyFloat(0), PyFloat(0)), Record("5", PyFloat(0), PyFloat(0))>>

----------------------------------------------------------------------------
(* get_api_key of src/app.py *)

\* bool(v)
Truthy(v) ==
    CASE v.t = "str"                  -> v.s # ""
      [] v.t \in {"absent", "NoneType"} -> FALSE
      [] v.t \in {"int", "float"}     -> v.n # 0
      [] OTHER                        -> TRUE

Whitespace == {" ", "\n", "\t", "\r"}

RECURSIVE Strip(_)
\* s.strip()
Strip(s) ==
    IF Len(s) = 0 THEN ""
    ELSE IF SubSeq(s, 1, 1) \in Whitespace THEN Strip(SubSeq(s, 2, Len(s)))
    ELSE IF SubSeq(s, Len(s), Len(s)) \in Whitespace THEN Strip(SubSeq(s, 1, Len(s) - 1))
    ELSE s

\* st.session_state.get(k, default)
SessionGet(ss, k, default) == IF k \in DOMAIN ss THEN ss[k] ELSE default

\* st.session_state[k] = v
SessionSet(ss, k, v) == [x \in DOMAIN ss \cup {k} |-> IF x = k THEN v ELSE ss[x]]

\* get_api_key: the value returned and the session state it leaves
GetApiKey(ss, ls, f, sec, env) ==
    IF Truthy(SessionGet(ss, "api_key", PyNone))                    \* lines 161-162
    THEN [ret |-> SessionGet(ss, "api_key", PyNone), ss |-> ss]
    ELSE IF ls.ok /\ Truthy(ls.val)                                 \* lines 165-171
    THEN [ret |-> ls.val, ss |-> SessionSet(ss, "api_key", ls.val)]
    ELSE IF f.ok /\ f.val.t # "absent" /\ Strip(f.val.s) # ""       \* lines 174-182
    THEN [ret |-> PyStr(Strip(f.val.s)),
          ss |-> SessionSet(ss, "api_key", PyStr(Strip(f.val.s)))]
    ELSE IF sec.ok /\ sec.val.t # "absent"                          \* lines 185-189
    THEN [ret |-> sec.val, ss |-> ss]
    ELSE IF Truthy(env)                                             \* lines 192-194
    THEN [ret |-> env, ss |-> ss]
    ELSE [ret |-> PyStr(""), ss |-> ss]                             \* line 196

\* lines 151-196: one call of get_api_key
get_api_key ==
    /\ kpc \in {"start", "done"}
    /\ asked_with' = session_state
    /\ api_key' = GetApiKey(session_state, local_storage, api_key_file, secrets, environ).ret
    /\ session_state' =
           GetApiKey(session_state, local_storage, api_key_file, secrets, environ).ss
    /\ kpc' = "done"
    /\ UNCHANGED <<local_storage, api_key_file, secrets, environ, fetch_vars, norm_vars,
                   store_vars, config_vars, channel_vars, title_vars>>

\* the session: no api_key entry, an empty one, or a key typed by the user
KeySessions == {NoSession, [k \in {"api_key"} |-> PyStr("")], [k \in {"api_key"} |-> PyStr("S")]}

\* getItem raises, finds nothing, or returns a string
StorageOutcomes == {Raised, Returned(PyNone), Returned(PyStr("")), Returned(PyStr("L"))}

\* reading .api_key raises, the file does not exist, or it has this content
FileOutcomes ==
    {Raised, Returned(Absent), Returned(PyStr("")), Returned(PyStr(" \n")),
     Returned(PyStr("F\n"))}

\* st.secrets raises (no secrets file), has no YOUTUBE_API_KEY, or has this one
SecretsOutcomes == {Raised, Returned(Absent), Returned(PyStr("")), Returned(PyStr("K"))}

\* the environment variable is unset or has this value
EnvValues == {Absent, PyStr(""), PyStr("E")}

InitKey ==
    /\ has_get_transcript = TRUE
    /\ has_list_transcripts = TRUE
    /\ has_list = TRUE
    /\ Idle
    /\ NormIdle
    /\ session_state \in KeySessions
    /\ local_storage \in StorageOutcomes
    /\ api_key_file \in FileOutcomes
    /\ secrets \in SecretsOutcomes
    /\ environ \in EnvValues
    /\ api_key = Absent
    /\ asked_with = NoSession
    /\ kpc = "start"
    /\ StoreIdle
    /\ ConfigIdle
    /\ ChannelIdle
    /\ TitleIdle

NextKey == get_api_key

SpecKey == InitKey /\ [][NextKey]_vars

\* the non-empty key a source holds, "" when it holds none or raises
SessionKey(ss) == IF "api_key" \in DOMAIN ss /\ ss["api_key"].t = "str" THEN ss["api_key"].s ELSE ""
OutcomeKey(o) == IF o.ok /\ o.val.t = "str" THEN Strip(o.val.s) ELSE ""
EnvKey == IF environ.t = "str" THEN environ.s ELSE ""

\* the first non-empty string of a sequence, "" when there is none
FirstKey(keys) ==
    IF \E i \in 1..Len(keys) : keys[i] # ""
    THEN keys[CHOOSE i \in 1..Len(keys) : keys[i] # "" /\ \A j \in 1..(i - 1) : keys[j] = ""]
    ELSE ""

\* C15: get_api_key returns the key of the highest-priority source that holds
\* a non-empty key, in the order session state, localStorage, .api_key file,
\* secrets, environment variable, and "" only when no source holds one; a
\* source that raises is skipped
C15_HighestPrioritySource ==
    kpc = "done" =>
        api_key = PyStr(FirstKey(<<SessionKey(asked_with), OutcomeKey(local_storage),
                                   OutcomeKey(api_key_file), OutcomeKey(secrets), EnvKey>>))

----------------------------------------------------------------------------
(* save_config of src/app.py *)

PyBool(b)  == [t |-> "bool", s |-> "", n |-> IF b THEN 1 ELSE 0]
\* a list of one string
PyStrList(x) == [t |-> "list", s |-> x, n |-> 1]
\* a datetime.date, by its ISO form
PyDate(iso) == [t |-> "date", s |-> iso, n |-> 0]

\* datetime.date.today() - datetime.timedelta(days=365), for some days
YearBefore ==
    "2025-06-01" :> "2024-06-01" @@ "2024-03-01" :> "2023-03-02"

\* the keys of lines 126-143 with their defaults; the default of
\* published_after depends on the day
ConfigDefaults ==
    [search_mode       |-> PyStr("Channel Deep Dive"),
     search_query      |-> PyStr("Future Tech"),
     region_name       |-> PyStr("United States"),
     lang_name         |-> PyStr("English"),
     channel_name      |-> PyStr("@UnXplained_Official"),
     max_results       |-> PyInt(50),
     order_by          |-> PyStr("viewCount"),
     published_after   |-> PyNone,
     cat_name          |-> PyStr("Any"),
     video_duration    |-> PyStrList("any"),
     video_type        |-> PyStrList("any"),
     safe_search       |-> PyStr("moderate"),
     creative_commons  |-> PyBool(FALSE),
     min_virality      |-> PyFloat(0),
     min_view_count    |-> PyInt(0),
     ai_keywords_input |-> PyStr("ChatGPT, Midjourney, AI Art, Stable Diffusion, ElevenLabs"),
     enable_transcript |-> PyBool(TRUE),
     enable_ocr        |-> PyBool(FALSE)]

ConfigKeys == DOMAIN ConfigDefaults

\* the API key saved with the rest
ConfigOfWithKey(ss, today) ==
    [k \in ConfigKeys \cup {"api_key"} |->
        IF k = "api_key" THEN SessionGet(ss, k, PyStr(""))
        ELSE IF k = "published_after"
        THEN PyStr(PyStrOf(SessionGet(ss, k, PyDate(YearBefore[today]))))
        ELSE SessionGet(ss, k, ConfigDefaults[k])]

\* lines 124-144: the dictionary `state`
ConfigOf(ss, today) ==
    [k \in ConfigKeys |->
        IF k = "published_after"
        THEN PyStr(PyStrOf(SessionGet(ss, k, PyDate(YearBefore[today]))))
        ELSE SessionGet(ss, k, ConfigDefaults[k])]

\* open() raises, json.dump raises after open() emptied the file, or both work
WriteOutcomes == {"open raises", "dump raises", "written"}

\* lines 122-149: one call of save_config; the bare except swallows a failure
save_config ==
    /\ cpc \in {"start", "done"}
    /\ \E today \in DOMAIN YearBefore, w \in WriteOutcomes :
          config_file' = CASE w = "written"     -> Written(ConfigOf(session_state, today))
                           [] w = "dump raises" -> Truncated
                           [] OTHER             -> config_file
    /\ cpc' = "done"
    /\ UNCHANGED <<session_state, key_vars, store_vars, fetch_vars, norm_vars,
                   channel_vars, title_vars>>

\* sessions: every choice of entries among these
SessionEntries ==
    [api_key        : {Absent, PyStr(""), PyStr("SECRET")},
     search_query   : {Absent, PyStr("cats"), PyStr("SECRET")},
     max_results    : {Absent, PyInt(10)},
     published_after : {Absent, PyDate("2020-02-29")},
     video_duration : {Absent, PyStrList("short")}]

\* the session that holds the entries of e that are there
SessionOf(e) == [k \in {x \in DOMAIN e : e[x].t # "absent"} |-> e[k]]

ConfigSessions == {SessionOf(e) : e \in SessionEntries}

InitConfig ==
    /\ has_get_transcript = TRUE
    /\ has_list_transcripts = TRUE
    /\ has_list = TRUE
    /\ Idle
    /\ NormIdle
    /\ KeyIdle
    /\ StoreIdle
    /\ session_state \in ConfigSessions
    /\ config_file = NoFile
    /\ cpc = "start"
    /\ ChannelIdle
    /\ TitleIdle

NextConfig == save_config

SpecConfig == InitConfig /\ [][NextConfig]_vars

\* the session without its api_key entry
WithoutKey(ss) == [k \in DOMAIN ss \ {"api_key"} |-> ss[k]]

\* the key is a secret that no other entry of the session repeats
KeyIsSecret ==
    /\ "api_key" \in DOMAIN session_state
    /\ session_state["api_key"].s # ""
    /\ \A k \in DOMAIN session_state \ {"api_key"} : session_state[k] # session_state["api_key"]

\* C16: the dictionary save_config writes to dashboard_config.json has no
\* api_key entry and does not depend on session_state['api_key'] (it is the
\* dictionary written for the same session without the key, and none of its
\* values is the key), and a failing write does not raise
C16_KeyNotSaved ==
    /\ cpc # "raised"
    /\ config_file.status = "written" =>
          /\ "api_key" \notin DOMAIN config_file.content
          /\ \E today \in DOMAIN YearBefore :
                config_file.content = ConfigOf(WithoutKey(session_state), today)
          /\ KeyIsSecret =>
                \A k \in DOMAIN config_file.content :
                    config_file.content[k] # session_state["api_key"]

\* a session with a key and a query, saved
C16_Witness ==
    /\ cpc = "done"
    /\ "api_key" \in DOMAIN session_state
    /\ session_state["api_key"] = PyStr("SECRET")
    /\ config_file.status = "written"
    /\ config_file.content["search_query"] = PyStr("cats")
    /\ config_file.content["published_after"] = PyStr("2020-02-29")

----------------------------------------------------------------------------
(* resolve_channel_id of src/app.py *)

\* execute() raises
ApiRaise == [k |-> "raise", has_items |-> FALSE, items |-> <<>>]
\* execute() returns a response; has_items: it has an 'items' key; an item is
\* given by the channel id it carries (item['id'] of a channels().list item,
\* item['id']['channelId'] of a search().list item), Absent when it has none
ApiRet(has_items, items) == [k |-> "ret", has_items |-> has_items, items |-> items]

HandleOutcomes ==
    {ApiRaise, ApiRet(FALSE, <<>>), ApiRet(TRUE, <<>>),
     ApiRet(TRUE, <<PyStr("UC_HANDLE_ID")>>),
     ApiRet(TRUE, <<PyStr("UC_HANDLE_ID"), PyStr("UC_OTHER")>>),
     ApiRet(TRUE, <<Absent>>)}

SearchOutcomes ==
    {ApiRaise, ApiRet(FALSE, <<>>), ApiRet(TRUE, <<>>),
     ApiRet(TRUE, <<PyStr("UC_SEARCH_ID")>>),
     ApiRet(TRUE, <<Absent>>)}

\* resp.get('items') is true
HasItems(resp) == resp.k = "ret" /\ resp.has_items /\ Len(resp.items) > 0

\* the id read from the first item, or the KeyError of reading it
FirstId(resp) ==
    IF HasItems(resp) /\ resp.items[1].t # "absent" THEN Returned(resp.items[1]) ELSE Raised

\* lines 1445-1452: the standard search
StandardSearch(h, s) ==
    [ret |-> IF FirstId(s).ok THEN FirstId(s).val ELSE PyNone, handle |-> h, search |-> s]

\* a failed handle lookup ends the call: lines 1445-1450 left out
ResolveWithoutFallback(q, h, s) ==
    IF Len(Strip(q)) > 0 /\ SubSeq(Strip(q), 1, 1) = "@"
    THEN [ret |-> IF FirstId(h).ok THEN FirstId(h).val ELSE PyNone,
          handle |-> h, search |-> NotCalled]
    ELSE StandardSearch(NotCalled, s)

\* lines 1431-1452: the body of resolve_channel_id for query q when the
\* handle lookup does h and the search does s
ResolveChannelId(q, h, s) ==
    IF Len(Strip(q)) > 0 /\ SubSeq(Strip(q), 1, 1) = "@"          \* line 1436
    THEN IF FirstId(h).ok                                         \* lines 1437-1442
         THEN [ret |-> FirstId(h).val, handle |-> h, search |-> NotCalled]
         ELSE StandardSearch(h, s)
    ELSE StandardSearch(NotCalled, s)

Queries == {"@Handle", " @Handle ", "Some Channel"}

\* lines 1430-1452: one call; st.cache_data answers a query it has seen
resolve_channel_id ==
    /\ rpc \in {"start", "done"}
    /\ \E q \in Queries, h \in HandleOutcomes, s \in SearchOutcomes :
          LET r == IF q \in DOMAIN channel_cache
                   THEN [ret |-> channel_cache[q], handle |-> NotCalled, search |-> NotCalled]
                   ELSE ResolveChannelId(q, h, s)
          IN  /\ query' = q
              /\ handle_resp' = r.handle
              /\ search_resp' = r.search
              /\ channel_id' = r.ret
              /\ channel_cache' = [x \in DOMAIN channel_cache \cup {q} |->
                                      IF x = q THEN r.ret ELSE channel_cache[x]]
    /\ rpc' = "done"
    /\ UNCHANGED <<session_state, key_vars, store_vars, config_vars, fetch_vars,
                   norm_vars, title_vars>>

\* line 1430: the cached results are an hour old
expire_cache ==
    /\ rpc = "done"
    /\ channel_cache # EmptyDict
    /\ channel_cache' = EmptyDict
    /\ UNCHANGED <<query, handle_resp, search_resp, channel_id, rpc, session_state,
                   key_vars, store_vars, config_vars, fetch_vars, norm_vars, title_vars>>

InitChannel ==
    /\ has_get_transcript = TRUE
    /\ has_list_transcripts = TRUE
    /\ has_list = TRUE
    /\ Idle
    /\ NormIdle
    /\ session_state = NoSession
    /\ KeyIdle
    /\ StoreIdle
    /\ ConfigIdle
    /\ query = ""
    /\ handle_resp = NotCalled
    /\ search_resp = NotCalled
    /\ channel_id = Absent
    /\ channel_cache = EmptyDict
    /\ rpc = "start"
    /\ TitleIdle

NextChannel == resolve_channel_id \/ expire_cache

SpecChannel == InitChannel /\ [][NextChannel]_vars

\* the response carries a first item with a channel id
GivesId(resp) == HasItems(resp) /\ resp.items[1].t = "str"

\* execute() raised or the response has no items
GivesNothing(resp) == resp.k = "raise" \/ (resp.k = "ret" /\ ~HasItems(resp))

\* C17: for a query starting with '@', a handle lookup that returns an item
\* gives that item's id without a search; a handle lookup that raises or
\* returns no items is followed by the search, whose first channelId is the
\* result, and the result is None when the search raises or returns no
\* items; the call never raises
C17_HandleThenSearch ==
    /\ rpc # "raised"
    /\ (rpc = "done" /\ SubSeq(Strip(query), 1, 1) = "@" /\ handle_resp # NotCalled) =>
          /\ GivesId(handle_resp) =>
                channel_id = handle_resp.items[1] /\ search_resp = NotCalled
          /\ GivesNothing(handle_resp) =>
                /\ search_resp # NotCalled
                /\ GivesId(search_resp) => channel_id = search_resp.items[1]
                /\ GivesNothing(search_resp) => channel_id = PyNone

\* the handle lookup raises and the search finds the channel
C17_Witness ==
    /\ rpc = "done"
    /\ query = "@Handle"
    /\ handle_resp = ApiRaise
    /\ search_resp = ApiRet(TRUE, <<PyStr("UC_SEARCH_ID")>>)
    /\ channel_id = PyStr("UC_SEARCH_ID")

----------------------------------------------------------------------------
(* analyze_title of src/seo_analyzer.py *)

\* re.search(r'\d+', s)
HasDigit(s) == \E i \in 1..Len(s) : SubSeq(s, i, i) \in {Digit[d] : d \in 1..10}

\* lines 424-440
AnalyzeTitle(t, kw) ==
    LET keyword == IF kw # "" /\ Contains(Lower(kw), Lower(t)) THEN 20 ELSE 0
        digits  == IF HasDigit(t) THEN 10 ELSE 0
        fits    == 40 <= Len(t) /\ Len(t) <= 60
        score   == 50 + keyword + digits + (IF fits THEN 10 ELSE 0)
    IN  [score |-> Min(score, 100),
         suggestions |->
             IF fits THEN <<>>
             ELSE <<"Adjust title length (currently " \o NatStr(Len(t))
                    \o " chars, ideal is 40-60)">>]

\* titles: an opening, a body of 0, 5, 40 or 63 characters, with or without
\* a year at the end
TitleOpenings == {"", "How to Make Money Online ", "7 "}
TitleBodies ==
    {"", "Tips.", "for beginners who start with nothing now",
     "a very long body that runs on and on and on well past the ideal"}
TitleEndings == {"", " 2025"}
Titles == {o \o b \o e : o \in TitleOpenings, b \in TitleBodies, e \in TitleEndings}

Keywords == {"", "money online", "MONEY", "cats"}

\* lines 424-440: one call of analyze_title
analyze_title ==
    /\ tpc = "start"
    /\ title_analysis' = AnalyzeTitle(title, target_keyword)
    /\ tpc' = "done"
    /\ UNCHANGED <<title, target_keyword, session_state, key_vars, store_vars,
                   config_vars, channel_vars, fetch_vars, norm_vars>>

InitTitle ==
    /\ has_get_transcript = TRUE
    /\ has_list_transcripts = TRUE
    /\ has_list = TRUE
    /\ Idle
    /\ NormIdle
    /\ session_state = NoSession
    /\ KeyIdle
    /\ StoreIdle
    /\ ConfigIdle
    /\ ChannelIdle
    /\ title \in Titles
    /\ target_keyword \in Keywords
    /\ title_analysis = NoAnalysis
    /\ tpc = "start"

NextTitle == analyze_title

SpecTitle == InitTitle /\ [][NextTitle]_vars

\* C18: analyze_title returns score 0 for an empty title with an empty target
\* keyword
C18_EmptyTitleScoresZero ==
    (tpc = "done" /\ title = "" /\ target_keyword = "") => title_analysis.score = 0

----------------------------------------------------------------------------
(* Diagnostic notes of the strategies *)

\* note e can be attributed to strategy k: it carries the tag of a note that
\* strategy k appends (strategy 4 appends none; the tag of the method it
\* calls is taken for it)
Attributable(k, e) ==
    CASE k \in {1, 4} -> \/ StartsWith("Static get_transcript", e)
                         \/ e \in {"Subtitles are disabled for this video",
                                   "No transcript available"}
      [] k = 2        -> StartsWith("Static list_transcripts", e)
      [] OTHER        -> \/ StartsWith("Cannot instantiate API", e)
                         \/ StartsWith("Instance list", e)
                         \/ e \in {"Subtitles disabled", "No transcript available"}

\* C19: whenever all four strategies fail and a client call raised during
\* strategy k, the notes hold a note attributable to strategy k
C19_EveryRaiseNoted ==
    AllFailed =>
        \A k \in raised_in : \E i \in 1..Len(errors) : Attributable(k, errors[i])

----------------------------------------------------------------------------
(* Track preference inside the listing and the instance strategy *)

\* invocation c looks up a manually authored preferred-language track
\* (find_transcript of the instance strategy prefers manual tracks)
ManualLookup(c) == c.op \in {"find_manually_created_transcript", "find_transcript"}

GeneratedLookup(c) == c.op = "find_generated_transcript"

\* the track looked up by invocation j was found and its fetch returned
Obtained(j) ==
    /\ calls[j].r = "ret"
    /\ j < Len(calls)
    /\ calls[j + 1].op = "fetch"
    /\ calls[j + 1].r # "raise"

\* the track looked up by invocation j was found and its fetch yielded content
YieldedContent(j) ==
    /\ calls[j].r = "ret"
    /\ j < Len(calls)
    /\ calls[j + 1].op = "fetch"
    /\ calls[j + 1].r = "content"

\* C20: in the listing and the instance strategy the order is manual, then
\* generated, then any: a generated track is looked up only after the manual
\* lookup and only if no manual track was obtained, the any-track iteration
\* starts only after both and only if neither was obtained, and the content
\* that the fetch of a manual track yields is the strategy's result
C20_ManualGeneratedAny ==
    \A i \in 1..Len(calls) :
        /\ GeneratedLookup(calls[i]) =>
              /\ calls[i].s = 2 => \E j \in 1..(i - 1) : ManualLookup(calls[j])
              /\ \A j \in 1..Len(calls) : ManualLookup(calls[j]) => (j < i /\ ~Obtained(j))
        /\ calls[i].op = "next" =>
              /\ calls[i].s = 2 => \E j \in 1..(i - 1) : GeneratedLookup(calls[j])
              /\ \A j \in 1..Len(calls) :
                    (ManualLookup(calls[j]) \/ GeneratedLookup(calls[j]))
                        => (j < i /\ ~Obtained(j))
        /\ (ManualLookup(calls[i]) /\ YieldedContent(i)) =>
              /\ Len(calls) = i + 1
              /\ pc = "done"
              /\ raw_data.truth = "yes"
              /\ yielded[Len(yielded)] = raw_data
              /\ attempted[Len(attempted)] = calls[i].s

\* the listing strategy finds no manual track, fails to fetch the generated
\* one and takes the first track of the iteration
C20_Witness ==
    /\ pc = "done"
    /\ attempted = <<1, 2>>
    /\ Len(calls) = 6
    /\ calls[2] = Call(2, "find_manually_created_transcript", Preferred, "raise")
    /\ calls[3] = CallOn(2, "find_generated_transcript", Preferred, "ret", 2)
    /\ calls[4] = CallOn(2, "fetch", <<>>, "raise", 2)
    /\ calls[5] = CallOn(2, "next", <<>>, "ret", 1)
    /\ calls[6] = CallOn(2, "fetch", <<>>, "content", 1)
    /\ result.kind = "list"

----------------------------------------------------------------------------
(* The any-track iteration of the listing and the instance strategy *)

\* the fetch of a track the iteration handed out, and the step that asks the
\* iteration for its next track
AnyFetch == {"s2_fetch_any", "s3_fetch_any"}
AnyNext == {"s2_next", "s3_next"}

\* where the iteration of the strategy at position p goes on
NextOf(p) == IF p = "s2_fetch_any" THEN "s2_next" ELSE "s3_next"

\* C21 (as claimed): the any-track iteration tries the tracks in listing order;
\* a fetch that yields content ends the strategy with that payload as its
\* result; a fetch that raises or yields no content leads to the next track;
\* when the tracks are exhausted the strategy yields no payload
C21_AnyTrackFallback ==
    [][/\ (pc \in AnyNext /\ pc' \in AnyFetch) =>
              calls'[Len(calls')].t = tracks_seen + 1
       /\ pc \in AnyFetch =>
              \/ /\ raw_data'.truth = "yes"
                 /\ yielded'[Len(yielded')] = raw_data'
                 /\ pc' = "done"
                 /\ calls'[Len(calls')].r = "content"
              \/ /\ pc' = NextOf(pc)
                 /\ calls'[Len(calls')].r # "content"
                 /\ raw_data' = raw_data
       /\ (pc \in AnyNext /\ pc' \notin AnyFetch) =>
              yielded'[Len(yielded')] = PyNonePayload]_vars

----------------------------------------------------------------------------
(* The generated track taken after a failed manual lookup *)

\* the listing strategy in progress, or the one that ended the call, made
\* exactly these invocations: the listing, a manual lookup that raised, a
\* generated lookup that found a track, and a fetch of it that yielded content
GeneratedAfterManualRaised ==
    /\ Len(calls) = 4
    /\ calls[1] = Call(2, "list_transcripts", <<>>, "ret")
    /\ calls[2] = Call(2, "find_manually_created_transcript", Preferred, "raise")
    /\ calls[3].op = "find_generated_transcript" /\ calls[3].r = "ret"
    /\ calls[4] = CallOn(2, "fetch", <<>>, "content", calls[3].t)

\* the payload holds one entry, which normalizes to a record
OneEntry(p) == Len(p.items) = 1 /\ NormalizeItem(p.items[1]).ok

----------------------------------------------------------------------------
(* No retries inside a call *)

\* positions of the invocations of method op in the log of the strategy
Invocations(op) == {i \in 1..Len(calls) : calls[i].op = op}

\* positions of the fetches made on track k
FetchesOf(k) == {i \in Invocations("fetch") : calls[i].t = k}

\* the fetch at position i was made on a track the iteration handed out
InIteration(i) == i > 1 /\ calls[i - 1].op = "next"

\* each strategy is entered at most once; the log of a strategy holds at most
\* one direct fetch, with the short language list in strategy 1 and the
\* extended list in strategy 4, and at most one call of each track-listing
\* capability; as the log holds the invocations of one strategy, these are at
\* most two direct fetches and one listing of each kind per call
NoRetries ==
    /\ \A i, j \in 1..Len(attempted) : attempted[i] = attempted[j] => i = j
    /\ Cardinality(Invocations("get_transcript")) <= 1
    /\ \A i \in Invocations("get_transcript") :
          \/ calls[i].s = 1 /\ calls[i].languages = <<"en", "en-US", "en-GB">>
          \/ calls[i].s = 4 /\ calls[i].languages = LANGUAGES_TO_TRY
    /\ Cardinality(Invocations("list_transcripts")) <= 1
    /\ Cardinality(Invocations("list")) <= 1
    /\ \A i \in Invocations("list_transcripts") : calls[i].s = 2
    /\ \A i \in Invocations("list") : calls[i].s = 3

\* C23 (as claimed): no retries within one call, and each track is fetched at
\* most once per strategy
C23_NoRetries ==
    /\ NoRetries
    /\ \A k \in 1..MaxTracks : Cardinality(FetchesOf(k)) <= 1

\* C23 (amended): no retries within one call; the iteration of a strategy
\* fetches each track at most once, and each lookup of a strategy is made at
\* most once and followed by at most one fetch, so that a track is fetched at
\* most three times per strategy
C23_NoRetriesPerStep ==
    /\ NoRetries
    /\ \A k \in 1..MaxTracks :
          /\ Cardinality({i \in FetchesOf(k) : InIteration(i)}) <= 1
          /\ Cardinality(FetchesOf(k)) <= 3
    /\ \A op \in {"find_manually_created_transcript", "find_transcript",
                  "find_generated_transcript"} :
          Cardinality(Invocations(op)) <= 1
    /\ \A i \in Invocations("fetch") :
          i > 1 /\ calls[i - 1].r = "ret" /\ calls[i - 1].t = calls[i].t
             /\ calls[i - 1].op # "fetch"

\* the fetch of the manual track raised and the iteration fetched it again
C23_Witness ==
    /\ attempted = <<1, 2>>
    /\ Len(calls) = 6
    /\ calls[2] = CallOn(2, "find_manually_created_transcript", Preferred, "ret", 1)
    /\ calls[3] = CallOn(2, "fetch", <<>>, "raise", 1)
    /\ calls[4] = Call(2, "find_generated_transcript", Preferred, "raise")
    /\ calls[5] = CallOn(2, "next", <<>>, "ret", 1)
    /\ calls[6] = CallOn(2, "fetch", <<>>, "content", 1)
    /\ FetchesOf(1) = {3, 6}

----------------------------------------------------------------------------
(* Capabilities the installed client lacks *)

\* the capability that the step at position p needs
Needs(p) ==
    CASE p \in {"s1", "s4"} -> "get_transcript"
      [] p = "s2"           -> "list_transcripts"
      [] p = "s3_list"      -> "list"
      [] OTHER              -> "none"

\* the installed client offers capability c
Offers(c) ==
    CASE c = "get_transcript"   -> has_get_transcript
      [] c = "list_transcripts" -> has_list_transcripts
      [] c = "list"             -> has_list
      [] OTHER                  -> TRUE

\* where the call goes on when the strategy at position p is skipped
SkippedTo(p) ==
    CASE p = "s1"      -> "s2"
      [] p = "s2"      -> "s3"
      [] p = "s3_list" -> "s4"
      [] OTHER         -> "done"

\* C24 (as claimed): when the installed client lacks the capability a strategy
\* needs (the static direct fetch, the static track listing, the list method
\* of the instance), the capability is not invoked, the call goes on with the
\* next strategy, and no note is recorded for the absence
C24_ProbedNotCaught ==
    [][~Offers(Needs(pc)) =>
          /\ \A i \in 1..Len(calls') : calls'[i].op # Needs(pc)
          /\ pc' = SkippedTo(pc)
          /\ errors' = errors]_vars

----------------------------------------------------------------------------
(* Entries whose text property is a mapping *)

\* entry e is not a mapping and its text property is one
MappingText(e) == e.kind = "obj" /\ e.text.t = "dict"

\* the mapping text property has an inner text key
HasInnerKey(tv) == tv.n \in {1, 3}

\* the string form of the value under the inner text key
InnerString(tv) == IF tv.n = 1 THEN tv.s ELSE "None"

\* C25: the record of a non-mapping entry whose text property is a mapping
\* has as text the value under the mapping's inner text key ({'text': 'X'}
\* gives 'X'), and the string form of the whole nested value when the mapping
\* has no such key
C25_NestedTextExtracted ==
    (npc = "done" /\ Iterable) =>
        \A i \in Kept :
            MappingText(data.items[i]) =>
                snippets[Rank(i)].text =
                    IF HasInnerKey(data.items[i].text)
                    THEN InnerString(data.items[i].text)
                    ELSE PyStrOf(data.items[i].text)

\* {'text': 'X'} gives 'X' and {'lang': 'en'} gives its string form
C25_Witness ==
    /\ npc = "done"
    /\ data = PyList(<<ObjEntry(PyTextDict("X"), PyInt(1), PyFloat(2), "Snippet", TRUE),
                       ObjEntry(PyOtherDict("en"), Absent, PyInt(1), "Snippet", TRUE)>>)
    /\ snippets = <<Record("X", PyFloat(1), PyFloat(2)),
                    Record("{'lang': 'en'}", PyFloat(0), PyFloat(1))>>

----------------------------------------------------------------------------
(* Entries whose start or duration is absent or not a number *)

\* a start or duration that cannot be parsed as a number
Unparseable(v) == v.t = "NoneType" \/ (v.t = "str" /\ v.s \notin DOMAIN NumStr)

\* a start or duration to be coerced to 0.0
ToCoerce(v) == v.t = "absent" \/ Unparseable(v)

\* the entry is one whose start and duration are read (CASE B, C and D)
ReadsTimes(e) == e.kind = "dict" \/ e.text.t # "absent"

\* every entry of the payload has its times read, and each of them is absent,
\* unparseable or a value that float() accepts
TimesCoercible ==
    \A i \in 1..Len(data.items) :
        /\ ReadsTimes(data.items[i])
        /\ ToCoerce(data.items[i].start) \/ FloatAccepts(data.items[i].start)
        /\ ToCoerce(data.items[i].duration) \/ FloatAccepts(data.items[i].duration)

\* C26 (as claimed): an entry whose start or duration is absent or cannot be
\* parsed as a number still yields a record, with that field 0.0
C26_TimesCoerced ==
    (npc = "done" /\ Iterable /\ TimesCoercible) =>
        /\ Len(snippets) = Len(data.items)
        /\ \A i \in 1..Len(snippets) :
              /\ ToCoerce(data.items[i].start) => snippets[i].start = PyFloat(0)
              /\ ToCoerce(data.items[i].duration) => snippets[i].duration = PyFloat(0)

----------------------------------------------------------------------------
(* Entries that are neither mappings nor carry a string or mapping text *)

\* entry e is not a mapping and has neither a string nor a mapping text
\* property: it has no text property, or one of another type
Opaque(e) == e.kind = "obj" /\ e.text.t \notin {"str", "dict"}

\* C27 (as claimed): an entry that is not a mapping and has neither a string
\* text property nor a mapping text property, an entry whose text property
\* has another type included, is normalized to a record whose text is the
\* string form of the entire entry and whose start and duration are 0.0
C27_OpaqueStringified ==
    (/\ npc = "done"
     /\ Iterable
     /\ \A i \in 1..Len(data.items) : Opaque(data.items[i]) /\ data.items[i].strOk) =>
        /\ Len(snippets) = Len(data.items)
        /\ \A i \in 1..Len(snippets) :
              snippets[i] = Record(data.items[i].repr, PyFloat(0), PyFloat(0))

----------------------------------------------------------------------------
(* A payload that normalizes to nothing *)

NormalizationFailed == "Transcript found but normalization failed."

\* the strategy that handed back the first true payload
FirstYielding ==
    CHOOSE i \in 1..Len(yielded) :
        /\ yielded[i].truth = "yes"
        /\ \A j \in 1..(i - 1) : yielded[j].truth # "yes"

\* C28: when the first strategy that hands back a non-empty payload hands back
\* one that normalizes to the empty list, the call returns a
\* normalization-failure string: not an empty list, and not the string of the
\* failure classifier; that strategy is the last one entered
C28_NormalizationFailure ==
    (~NoPayload /\ Len(normalize_transcript(FirstPayload)) = 0) =>
        /\ pc = "done"
        /\ result.kind = "str"
        /\ StartsWith(NormalizationFailed, result.s)
        /\ result # ClassifyRec(errors)
        /\ attempted[Len(attempted)] = FirstYielding
        /\ Len(yielded) = FirstYielding
        /\ \A i \in 1..Len(calls) : calls[i].s = FirstYielding

\* the listing strategy hands back an int after the direct call left a note
C28_Witness ==
    /\ pc = "done"
    /\ attempted = <<1, 2>>
    /\ Len(errors) = 1
    /\ yielded = <<PyNonePayload, PyIntPayload>>
    /\ result = StrResult("Transcript found but normalization failed. Raw type: <class 'int'>")

----------------------------------------------------------------------------
(* normalize_transcript applied to its own output *)

\* the list normalize_transcript returned, as an argument: a list of mappings
\* with the keys text, start and duration
AsPayload(records) ==
    PyList([i \in 1..Len(records) |->
               DictEntry(PyStr(records[i].text), records[i].start, records[i].duration,
                         FALSE)])

\* normalize_transcript(normalize_transcript(x)) == normalize_transcript(x)
Idempotent == normalize_transcript(AsPayload(snippets)) = snippets

\* the argument can be iterated only once
OneShot == data.attr = "absent" /\ data.seq = "once"

----------------------------------------------------------------------------
(* save_api_key_to_storage and clear_api_key_from_storage of src/app.py *)

\* del st.session_state[k]
SessionDel(ss, k) == [x \in DOMAIN ss \ {k} |-> ss[x]]

\* open('.api_key', 'w') raises, f.write raises after open() emptied the file,
\* or the key is written
KeyWrites == {"open raises", "write raises", "written"}

\* lines 198-218: browser storage and file after save_api_key_to_storage(k),
\* when setItem succeeds or raises (set_ok) and the write does w
SaveApiKey(ls, f, k, set_ok, w) ==
    [ls |-> IF set_ok THEN Returned(PyStr(k)) ELSE ls,
     f  |-> CASE w = "written"      -> Returned(PyStr(k))
              [] w = "write raises" -> Returned(PyStr(""))
              [] OTHER              -> f,
     success |-> set_ok \/ w = "written"]

\* lines 220-240: browser storage and file after clear_api_key_from_storage(),
\* when deleteItem succeeds or raises (del_ok) and os.remove, called if the
\* file exists, succeeds or raises (rm_ok)
ClearApiKey(ls, f, del_ok, rm_ok) ==
    [ls |-> IF del_ok THEN Returned(PyNone) ELSE ls,
     f  |-> IF f.val.t # "absent" /\ rm_ok THEN Returned(Absent) ELSE f,
     success |-> del_ok \/ f.val.t = "absent" \/ rm_ok]

\* lines 237-239
ClearSession(ss) == SessionDel(ss, "api_key")

\* keys the user may save
StoreKeys == {"K", "K2"}

\* lines 198-218
save_api_key_to_storage ==
    /\ spc = "start"
    /\ \E k \in StoreKeys, set_ok \in BOOLEAN, w \in KeyWrites :
          /\ key_arg' = k
          /\ local_storage' = SaveApiKey(local_storage, api_key_file, k, set_ok, w).ls
          /\ api_key_file' = SaveApiKey(local_storage, api_key_file, k, set_ok, w).f
          /\ session_state' = SessionSet(session_state, "api_key", PyStr(k))
    /\ spc' = "saved"
    /\ UNCHANGED <<clear_ret, secrets, environ, api_key, asked_with, kpc, fetch_vars,
                   norm_vars, config_vars, channel_vars, title_vars>>

\* lines 220-240
clear_api_key_from_storage ==
    /\ spc = "saved"
    /\ \E del_ok \in BOOLEAN, rm_ok \in BOOLEAN :
          /\ local_storage' = ClearApiKey(local_storage, api_key_file, del_ok, rm_ok).ls
          /\ api_key_file' = ClearApiKey(local_storage, api_key_file, del_ok, rm_ok).f
          /\ clear_ret' = PyBool(ClearApiKey(local_storage, api_key_file, del_ok, rm_ok).success)
    /\ session_state' = ClearSession(session_state)
    /\ spc' = "cleared"
    /\ UNCHANGED <<key_arg, secrets, environ, api_key, asked_with, kpc, fetch_vars,
                   norm_vars, config_vars, channel_vars, title_vars>>

\* line 383: the get_api_key call of the run that follows the removal
get_api_key_cleared ==
    /\ spc = "cleared"
    /\ get_api_key

\* what browser storage and the file hold before the key is saved
StoredBefore == {Returned(PyNone), Returned(PyStr("L"))}
FileBefore == {Returned(Absent), Returned(PyStr("F\n"))}

InitStore ==
    /\ has_get_transcript = TRUE
    /\ has_list_transcripts = TRUE
    /\ has_list = TRUE
    /\ Idle
    /\ NormIdle
    /\ session_state \in KeySessions
    /\ local_storage \in StoredBefore
    /\ api_key_file \in FileBefore
    /\ secrets \in {Returned(Absent), Returned(PyStr("K"))}
    /\ environ \in {Absent, PyStr("E")}
    /\ api_key = Absent
    /\ asked_with = NoSession
    /\ kpc = "start"
    /\ key_arg = ""
    /\ clear_ret = PyNone
    /\ spc = "start"
    /\ ConfigIdle
    /\ ChannelIdle
    /\ TitleIdle

NextStore ==
    \/ save_api_key_to_storage
    \/ clear_api_key_from_storage
    \/ get_api_key_cleared

SpecStore == InitStore /\ [][NextStore]_vars

\* the key k is held by the session, by browser storage or by the file
HeldBy(k) ==
    {src \in {"session", "localStorage", "file"} :
        CASE src = "session"      -> SessionKey(session_state) = k
          [] src = "localStorage" -> OutcomeKey(local_storage) = k
          [] OTHER                -> OutcomeKey(api_key_file) = k}

\* C30 (as claimed): after save_api_key_to_storage(k) and a
\* clear_api_key_from_storage() that returned True, whichever of the storage
\* operations raised, k is gone from session state, browser storage and the
\* .api_key file, and the get_api_key call that follows does not return k
\* from any of them
C30_ClearedKeyGone ==
    (spc = "cleared" /\ clear_ret = PyBool(TRUE)) =>
        /\ HeldBy(key_arg) = {}
        /\ (kpc = "done" /\ OutcomeKey(secrets) # key_arg /\ EnvKey # key_arg)
              => api_key # PyStr(key_arg)

====
